---- MODULE Spec2Model ----
(***************************************************************************)
(* A model of src/projects/study-data.js, the StudyData data layer: one    *)
(* JSON document in one localStorage slot, and the operations that load,   *)
(* change and save it.                                                     *)
(*                                                                         *)
(* Time.  Date.now() is the variable now.  One clock unit is 12 hours      *)
(* (43,200,000 ms), so that the code's day, 24*60*60*1000 ms, is DayMs = 2 *)
(* units; every timestamp of the model is a whole number of units, and an  *)
(* operation runs to its end within one unit (the code is synchronous).    *)
(*                                                                         *)
(* Objects.  A JavaScript object whose keys are data (performance,         *)
(* weakness, exposure, dailyLog) is a sequence of [key, val] entries in    *)
(* insertion order, which is the order Object.entries walks and            *)
(* JSON.stringify/JSON.parse keep for string keys.  An object with fixed   *)
(* field names is a record.                                                *)
(*                                                                         *)
(* Strings of JSON.  The slot holds a string; the model keeps of a string  *)
(* what the code can tell: whether it is there (kind "absent"), whether    *)
(* JSON.parse throws on it ("garbage"), whether it parses to null          *)
(* ("null") or to an object ("json"), its indentation (0 as _saveStore     *)
(* writes it, 2 as exportData writes it) and the value it parses to.       *)
(***************************************************************************)
EXTENDS Integers, Sequences, FiniteSets, TLC

VARIABLES
    storage,    \* localStorage[STORAGE_KEY]: the string in the slot
    now,        \* Date.now(), in clock units
    call,       \* the last operation called, with its arguments
    ret,        \* what that operation returned
    exported,   \* the string the caller last got from exportData()
    discarded,  \* what the slot held when resetAll() last removed it
    phase,      \* how far the caller is in export -> reset -> import(exported)
    correctRun, \* per item key, its latest trackExposure calls in a row with wasCorrect
    quizzes,    \* recordDosageQuiz calls so far: all of them, and those other than 9 of 10
    recorded,   \* the recordResult calls so far, each with the clock it read
    setBackDay, \* the day on which the browser's time zone set its clocks back
    found       \* the kind of text the last call found in the slot

vars == <<storage, now, call, ret, exported, discarded, phase, correctRun, quizzes,
          recorded, setBackDay, found>>

\* ----------------------------------------------------------------- constants

VERSION == 1

DayMs == 2

SR_INTERVALS == <<1, 3, 7, 14, 30>>

CONCEPT_AREAS == {"cardiac", "oxygenation", "fluid-electrolytes",
                  "cognition-sensation", "emergency-disaster"}

\* ------------------------------------------------------------- small helpers

Min(a, b) == IF a <= b THEN a ELSE b

\* The lower of the two in place of the higher.
MaxLower(a, b) == IF a <= b THEN a ELSE b

Max(a, b) == IF a >= b THEN a ELSE b

\* Math.floor(a / b) for a >= 0, b > 0.
Floor(a, b) == a \div b

\* The quotients a / b whose hundredfold ends in .5 exactly while the double
\* (a / b) * 100 falls just short of it (23 / 40 gives 57.49999999999999):
\* all there are among 0 <= a <= b <= 400.
RoundsShort(a, b) ==
    \/ 40 * a = 23 * b
    \/ 200 * a = 29 * b
    \/ 200 * a = 57 * b
    \/ 200 * a = 113 * b

\* Math.round((a / b) * 100) for a >= 0, b > 0, as IEEE doubles give it: the
\* nearest integer to 100 a / b, a half going up, but for the quotients that
\* fall short.  (Right for 0 <= a <= b <= 400, and for every a when b < 40.)
RoundPct(a, b) ==
    (200 * a + b) \div (2 * b) - (IF RoundsShort(a, b) THEN 1 ELSE 0)

\* A number as JavaScript has it where the code can produce one that is not
\* finite, and null, which is what JSON.stringify writes for those.
Num(n) == [t |-> "num", n |-> n]

NaN == [t |-> "NaN", n |-> 0]

Infinity == [t |-> "Infinity", n |-> 0]

JNull == [t |-> "null", n |-> 0]

\* ------------------------------------------- objects keyed by data (ordered)

Keys(m) == {m[i].key : i \in 1..Len(m)}

Has(m, k) == \E i \in 1..Len(m) : m[i].key = k

Get(m, k) == m[CHOOSE i \in 1..Len(m) : m[i].key = k].val

\* m[k] = v: an existing key keeps its place, a new key goes last.
Put(m, k, v) ==
    IF Has(m, k)
    THEN [i \in 1..Len(m) |-> IF m[i].key = k THEN [key |-> k, val |-> v] ELSE m[i]]
    ELSE Append(m, [key |-> k, val |-> v])

\* A const of the code: the value v is computed once and handed to F.
With(v, F(_)) == CHOOSE out \in {F(x) : x \in {v}} : TRUE

\* array.slice(-n)
SliceLast(s, n) == IF Len(s) <= n THEN s ELSE SubSeq(s, Len(s) - n + 1, Len(s))

\* array.slice(0, n)
SliceFirst(s, n) == SubSeq(s, 1, Min(n, Len(s)))

RECURSIVE FilterSeq(_, _)
\* array.filter, for a set of wanted values
FilterSeq(s, keep) ==
    IF s = << >> THEN << >>
    ELSE IF Head(s) \in keep
         THEN <<Head(s)>> \o FilterSeq(Tail(s), keep)
         ELSE FilterSeq(Tail(s), keep)

\* ------------------------------------------------------ JSON and the slot

Absent == [kind |-> "absent", indent |-> 0, val |-> << >>]

Garbage == [kind |-> "garbage", indent |-> 0, val |-> << >>]

NullText == [kind |-> "null", indent |-> 0, val |-> << >>]

\* What JSON.stringify writes of one recentScores entry: a pct that is NaN
\* or Infinity is written as null.
JsonScore(q) ==
    [q EXCEPT !.pct = IF q.pct.t \in {"NaN", "Infinity"} THEN JNull ELSE q.pct]

\* The value a document has once written and read back.
Jsonify(doc) ==
    IF "dosageStreak" \in DOMAIN doc
    THEN [doc EXCEPT !.dosageStreak.recentScores =
                [i \in 1..Len(@) |-> JsonScore(@[i])]]
    ELSE doc

\* JSON.stringify(doc) (indent 0) and JSON.stringify(doc, null, 2) (indent 2)
Stringify(doc, indent) == [kind |-> "json", indent |-> indent, val |-> Jsonify(doc)]

\* JSON.parse(text) throws
ParseThrows(text) == text.kind = "garbage"

\* JSON.parse(text), for a text that parses to an object
Parse(text) == text.val

\* ------------------------------------------------------- core data access

\* _saveStore: stamp _lastUpdated, write the slot.  The value is the new slot.
SaveStore(store, t) == Stringify([_lastUpdated |-> t] @@ store, 0)

\* The document _createFreshStore builds (before it saves it).
FreshDoc(t) ==
    [_version |-> VERSION, _created |-> t, _lastUpdated |-> t,
     performance |-> << >>, weakness |-> << >>, exposure |-> << >>,
     sessions |-> << >>,
     dosageStreak |-> [current |-> 0, best |-> 0, recentScores |-> << >>],
     wrongAnswerLog |-> << >>, dailyLog |-> << >>]

\* _createFreshStore: the store it returns and the slot it leaves.
CreateFreshStore(t) == [store |-> FreshDoc(t), slot |-> SaveStore(FreshDoc(t), t)]

\* A migration that saves the document with the version it came with.
MigrateKeepsVersion(store, t) ==
    [store |-> [_lastUpdated |-> t] @@ store, slot |-> SaveStore(store, t)]

\* _migrate: stamp the version, save.
Migrate(store, t) ==
    LET s == [_version |-> VERSION] @@ store
    IN  [store |-> [_lastUpdated |-> t] @@ s, slot |-> SaveStore(s, t)]

\* store._version !== VERSION
VersionDiffers(store) ==
    \/ "_version" \notin DOMAIN store
    \/ store._version # VERSION

\* A load that hands out a fresh document for a text that does not parse and
\* leaves the text in the slot.
GetStoreKeepsText(slot, t) ==
    IF slot.kind = "absent" THEN CreateFreshStore(t)
    ELSE IF ParseThrows(slot) \/ slot.kind = "null"
         THEN [store |-> FreshDoc(t), slot |-> slot]
    ELSE IF VersionDiffers(Parse(slot)) THEN Migrate(Parse(slot), t)
    ELSE [store |-> Parse(slot), slot |-> slot]

\* _getStore: the store it returns and the slot it leaves.  An empty slot, a
\* text that does not parse, and a text that parses to null (reading
\* null._version throws inside the try) all give a fresh store.
GetStore(slot, t) ==
    IF slot.kind = "absent" THEN CreateFreshStore(t)
    ELSE IF ParseThrows(slot) \/ slot.kind = "null" THEN CreateFreshStore(t)
    ELSE IF VersionDiffers(Parse(slot)) THEN Migrate(Parse(slot), t)
    ELSE [store |-> Parse(slot), slot |-> slot]

\* The collections of the document the operations read.
Collections ==
    {"performance", "weakness", "exposure", "sessions", "dosageStreak", "wrongAnswerLog",
     "dailyLog"}

\* store.f is undefined for one of the fields: reading a property of it, or
\* calling a method on it, throws a TypeError.
Lacks(store, fields) == \E f \in fields : f \notin DOMAIN store

\* The TypeError an operation lets through to its caller.
TypeError == [thrown |-> "TypeError"]

\* An operation that throws after its load: nothing is saved but what the
\* load saved.
Raised(slot) == [slot |-> slot, ret |-> TypeError, thrown |-> TRUE]

\* The outcome r of an operation is an error thrown to the caller.
Threw(r) == "thrown" \in DOMAIN r


\* ---------------------------------------------------- performance tracking

\* CONCEPT_AREAS[area]?.display || area
ConceptDisplay(area) ==
    CASE area = "cardiac" -> "Cardiac Output & Perfusion"
      [] area = "oxygenation" -> "Oxygenation"
      [] area = "fluid-electrolytes" -> "Fluid & Electrolytes"
      [] area = "cognition-sensation" -> "Cognition & Sensation"
      [] area = "emergency-disaster" -> "Emergency & Disaster"
      [] OTHER -> area

\* CONCEPT_AREAS[area]?.color || '#999'
ConceptColor(area) ==
    CASE area = "cardiac" -> "#E74C3C"
      [] area = "oxygenation" -> "#27AE60"
      [] area = "fluid-electrolytes" -> "#3498DB"
      [] area = "cognition-sensation" -> "#8E44AD"
      [] area = "emergency-disaster" -> "#E67E22"
      [] OTHER -> "#999"

\* PROJECTS[pk]?.name || pk
ProjectName(pk) ==
    CASE pk = "shock-simulator" -> "Shock Simulator"
      [] pk = "cardiac-pharm" -> "Cardiac Pharm"
      [] pk = "sbar-journal" -> "SBAR Journal"
      [] pk = "chain-maps" -> "Chain Maps"
      [] pk = "ecg-portfolio" -> "ECG Portfolio"
      [] pk = "wrong-answer-log" -> "Wrong Answer Log"
      [] pk = "teach-back-cards" -> "Teach-Back Cards"
      [] pk = "complication-connector" -> "Complication Connector"
      [] pk = "dosage-calc" -> "Dosage Calc Drill"
      [] pk = "quiz-prep" -> "Quiz Prep Hub"
      [] OTHER -> pk

RECURSIVE SumField(_, _)
\* The sum of field f over the values of an object.
SumField(m, f) == IF m = << >> THEN 0 ELSE Head(m).val[f] + SumField(Tail(m), f)

RECURSIVE FlaggedBy(_)
\* The projects of an area with at least 3 attempts and accuracy under 75%.
FlaggedBy(areaPerf) ==
    IF areaPerf = << >> THEN << >>
    ELSE LET data == Head(areaPerf).val
         IN  (IF data.total >= 3 /\ 4 * data.correct < 3 * data.total
              THEN <<Head(areaPerf).key>> ELSE << >>)
             \o FlaggedBy(Tail(areaPerf))

\* _updateWeakness: the weakness object it leaves.  The record it creates for
\* a new area only fixes the area's place: the recomputed one replaces it.
UpdateWeakness(store, conceptArea, t) ==
    LET areaPerf      == IF Has(store.performance, conceptArea)
                         THEN Get(store.performance, conceptArea) ELSE << >>
        totalCorrect  == SumField(areaPerf, "correct")
        totalAttempts == SumField(areaPerf, "total")
    IN  Put(store.weakness, conceptArea,
            [score         |-> IF totalAttempts > 0
                               THEN RoundPct(totalCorrect, totalAttempts) ELSE 100,
             flaggedBy     |-> FlaggedBy(areaPerf),
             lastUpdated   |-> t,
             totalAttempts |-> totalAttempts])

\* new Date().toISOString().split('T')[0]: the UTC day, as a day number.
DayKey(t) == Floor(t, DayMs)

\* _getAccuracy on a loaded store.
AccuracyOf(store, conceptArea, projectKey) ==
    IF ~Has(store.performance, conceptArea) THEN JNull
    ELSE IF ~Has(Get(store.performance, conceptArea), projectKey) THEN JNull
    ELSE LET perf == Get(Get(store.performance, conceptArea), projectKey)
         IN  IF perf.total = 0 THEN JNull ELSE Num(RoundPct(perf.correct, perf.total))

\* The performance part with the total of the call kept and not added.
PerformanceStepLastTotal(store, t, projectKey, conceptArea, correct, total) ==
    LET area0  == IF Has(store.performance, conceptArea)
                  THEN Get(store.performance, conceptArea) ELSE << >>
        perf0  == IF Has(area0, projectKey) THEN Get(area0, projectKey)
                  ELSE [correct |-> 0, total |-> 0, history |-> << >>]
        pushed == Append(perf0.history, [ts |-> t, correct |-> correct, total |-> total])
        perf   == [correct |-> perf0.correct + correct,
                   total   |-> total,
                   history |-> IF Len(pushed) > 50 THEN SliceLast(pushed, 50) ELSE pushed]
    IN  [store EXCEPT !.performance = Put(@, conceptArea, Put(area0, projectKey, perf))]

\* The performance part with the first 50 entries of the history kept.
PerformanceStepFirst50(store, t, projectKey, conceptArea, correct, total) ==
    LET area0  == IF Has(store.performance, conceptArea)
                  THEN Get(store.performance, conceptArea) ELSE << >>
        perf0  == IF Has(area0, projectKey) THEN Get(area0, projectKey)
                  ELSE [correct |-> 0, total |-> 0, history |-> << >>]
        pushed == Append(perf0.history, [ts |-> t, correct |-> correct, total |-> total])
        perf   == [correct |-> perf0.correct + correct,
                   total   |-> perf0.total + total,
                   history |-> IF Len(pushed) > 50 THEN SliceFirst(pushed, 50) ELSE pushed]
    IN  [store EXCEPT !.performance = Put(@, conceptArea, Put(area0, projectKey, perf))]

\* The performance part of recordResult: the record of the area and project,
\* made if missing, gets the counts added and the attempt pushed on its
\* history, which keeps its last 50.
PerformanceStep(store, t, projectKey, conceptArea, correct, total) ==
    LET area0  == IF Has(store.performance, conceptArea)
                  THEN Get(store.performance, conceptArea) ELSE << >>
        perf0  == IF Has(area0, projectKey) THEN Get(area0, projectKey)
                  ELSE [correct |-> 0, total |-> 0, history |-> << >>]
        pushed == Append(perf0.history, [ts |-> t, correct |-> correct, total |-> total])
        perf   == [correct |-> perf0.correct + correct,
                   total   |-> perf0.total + total,
                   history |-> IF Len(pushed) > 50 THEN SliceLast(pushed, 50) ELSE pushed]
    IN  [store EXCEPT !.performance = Put(@, conceptArea, Put(area0, projectKey, perf))]

\* The session log part of recordResult: the session pushed, the last 500 kept.
SessionStep(store, t, projectKey, conceptArea, correct, total, itemDetails) ==
    LET sess == Append(store.sessions,
                       [ts |-> t, project |-> projectKey, conceptArea |-> conceptArea,
                        correct |-> correct, total |-> total, details |-> itemDetails])
    IN  [store EXCEPT !.sessions = IF Len(sess) > 500 THEN SliceLast(sess, 500) ELSE sess]

\* The daily log part of recordResult.
DailyLogStep(store, t, projectKey, correct, total) ==
    LET day0 == IF Has(store.dailyLog, DayKey(t)) THEN Get(store.dailyLog, DayKey(t))
                ELSE [items |-> 0, correct |-> 0, projects |-> << >>]
        day  == [items    |-> day0.items + total,
                 correct  |-> day0.correct + correct,
                 projects |-> IF \E i \in 1..Len(day0.projects) :
                                    day0.projects[i] = projectKey
                              THEN day0.projects
                              ELSE Append(day0.projects, projectKey)]
    IN  [store EXCEPT !.dailyLog = Put(@, DayKey(t), day)]

\* recordResult(projectKey, conceptArea, correct, total, itemDetails): the slot
\* it leaves and the accuracy it returns.
RecordResultOp(slot, t, projectKey, conceptArea, correct, total, itemDetails) ==
    IF Lacks(GetStore(slot, t).store, {"performance", "weakness", "sessions", "dailyLog"}) THEN Raised(GetStore(slot, t).slot)
    ELSE
    With(GetStore(slot, t).store, LAMBDA store :
    With(PerformanceStep(store, t, projectKey, conceptArea, correct, total), LAMBDA store1 :
    With([store1 EXCEPT !.weakness = UpdateWeakness(store1, conceptArea, t)], LAMBDA store2 :
    With(SessionStep(store2, t, projectKey, conceptArea, correct, total, itemDetails),
         LAMBDA store3 :
    With(DailyLogStep(store3, t, projectKey, correct, total), LAMBDA store4 :
    With(SaveStore(store4, t), LAMBDA saved :
        [slot |-> saved,
         ret  |-> AccuracyOf(GetStore(saved, t).store, conceptArea, projectKey)]))))))

\* ------------------------------------------------------------ weakness map

RECURSIVE WeakLoopFlagged(_)
\* The loop with the areas a tool has flagged let in as well.
WeakLoopFlagged(weakness) ==
    IF weakness = << >> THEN << >>
    ELSE LET area == Head(weakness).key
             data == Head(weakness).val
         IN  (IF (data.totalAttempts >= 3 /\ data.score < 80) \/ data.flaggedBy # << >>
              THEN <<[conceptArea   |-> area,
                      display       |-> ConceptDisplay(area),
                      color         |-> ConceptColor(area),
                      score         |-> data.score,
                      flaggedBy     |-> [i \in 1..Len(data.flaggedBy) |->
                                            ProjectName(data.flaggedBy[i])],
                      flaggedByKeys |-> data.flaggedBy]>>
              ELSE << >>)
             \o WeakLoopFlagged(Tail(weakness))

RECURSIVE WeakLoop(_)
\* The for loop of getWeaknesses over Object.entries(store.weakness).
WeakLoop(weakness) ==
    IF weakness = << >> THEN << >>
    ELSE LET area == Head(weakness).key
             data == Head(weakness).val
         IN  (IF data.totalAttempts >= 3 /\ data.score < 80
              THEN <<[conceptArea   |-> area,
                      display       |-> ConceptDisplay(area),
                      color         |-> ConceptColor(area),
                      score         |-> data.score,
                      flaggedBy     |-> [i \in 1..Len(data.flaggedBy) |->
                                            ProjectName(data.flaggedBy[i])],
                      flaggedByKeys |-> data.flaggedBy]>>
              ELSE << >>)
             \o WeakLoop(Tail(weakness))

\* result.sort((a, b) => a.score - b.score), a stable sort: an entry comes
\* after those of a lower score and those of its score that stood before it.
WeakRank(s, i) ==
    Cardinality({j \in 1..Len(s) : (s[j].score - s[i].score < 0)
                                    \/ (s[j].score - s[i].score = 0 /\ j <= i)})

WeakSort(s) ==
    With(s, LAMBDA a : [r \in 1..Len(a) |-> a[CHOOSE i \in 1..Len(a) : WeakRank(a, i) = r]])

\* getWeaknesses() on a loaded store.
WeaknessesOf(store) == WeakSort(WeakLoop(store.weakness))

\* getWeaknesses(): the slot it leaves and the list it returns.
GetWeaknessesOp(slot, t) ==
    IF Lacks(GetStore(slot, t).store, {"weakness"}) THEN Raised(GetStore(slot, t).slot)
    ELSE
    LET g == GetStore(slot, t)
    IN  [slot |-> g.slot, ret |-> WeaknessesOf(g.store)]

\* getConceptScore(conceptArea) on a loaded store.
ConceptScoreOf(store, conceptArea) ==
    IF Has(store.weakness, conceptArea)
    THEN Num(Get(store.weakness, conceptArea).score) ELSE JNull

\* ------------------------------------------------------- spaced repetition

\* trackExposure with the cap of box forgotten.
TrackExposureNoCap(slot, t, itemKey, wasCorrect) ==
    LET store == GetStore(slot, t).store
        exp0  == IF Has(store.exposure, itemKey)
                 THEN store.exposure
                 ELSE Put(store.exposure, itemKey,
                          [lastSeen |-> t, timesSeen |-> 0, box |-> 1])
        old   == Get(exp0, itemKey)
        item  == [lastSeen  |-> t,
                  timesSeen |-> old.timesSeen + 1,
                  box       |-> IF wasCorrect THEN old.box + 1 ELSE 1]
        store1 == [store EXCEPT !.exposure = Put(exp0, itemKey, item)]
    IN  [slot |-> SaveStore(store1, t), ret |-> item]

\* trackExposure with a new record counted as seen once already.
TrackExposureSeenOnce(slot, t, itemKey, wasCorrect) ==
    LET store == GetStore(slot, t).store
        exp0  == IF Has(store.exposure, itemKey)
                 THEN store.exposure
                 ELSE Put(store.exposure, itemKey,
                          [lastSeen |-> t, timesSeen |-> 1, box |-> 1])
        old   == Get(exp0, itemKey)
        item  == [lastSeen  |-> t,
                  timesSeen |-> old.timesSeen + 1,
                  box       |-> IF wasCorrect THEN Min(old.box + 1, 5) ELSE 1]
        store1 == [store EXCEPT !.exposure = Put(exp0, itemKey, item)]
    IN  [slot |-> SaveStore(store1, t), ret |-> item]

\* trackExposure(itemKey, wasCorrect): the slot it leaves and the record it
\* returns.
TrackExposureOp(slot, t, itemKey, wasCorrect) ==
    IF Lacks(GetStore(slot, t).store, {"exposure"}) THEN Raised(GetStore(slot, t).slot)
    ELSE
    LET store == GetStore(slot, t).store
        exp0  == IF Has(store.exposure, itemKey)
                 THEN store.exposure
                 ELSE Put(store.exposure, itemKey,
                          [lastSeen |-> t, timesSeen |-> 0, box |-> 1])
        old   == Get(exp0, itemKey)
        item  == [lastSeen  |-> t,
                  timesSeen |-> old.timesSeen + 1,
                  box       |-> IF wasCorrect THEN Min(old.box + 1, 5) ELSE 1]
        store1 == [store EXCEPT !.exposure = Put(exp0, itemKey, item)]
    IN  [slot |-> SaveStore(store1, t), ret |-> item]

\* SR_INTERVALS[box - 1] || 1
IntervalDays(box) == IF box \in 1..Len(SR_INTERVALS) THEN SR_INTERVALS[box] ELSE 1

\* item.lastSeen + intervalMs
DueAt(item) == item.lastSeen + IntervalDays(item.box) * DayMs

\* The due test with > for >=.
IsDueStrict(item, t) == t > DueAt(item)

\* now >= dueAt
IsDue(item, t) == t >= DueAt(item)

\* The entry getDueItems pushes for a due item.
DueEntry(key, item, t) ==
    [key       |-> key,
     box       |-> item.box,
     lastSeen  |-> item.lastSeen,
     daysSince |-> Floor(t - item.lastSeen, DayMs),
     timesSeen |-> item.timesSeen,
     overdue   |-> Floor(t - DueAt(item), DayMs)]

RECURSIVE DueLoop(_, _)
\* The for loop of getDueItems over Object.entries(store.exposure).
DueLoop(exposure, t) ==
    IF exposure = << >> THEN << >>
    ELSE LET e == Head(exposure)
         IN  (IF IsDue(e.val, t) THEN <<DueEntry(e.key, e.val, t)>> ELSE << >>)
             \o DueLoop(Tail(exposure), t)

\* The comparator of due.sort: lowest box first, then most overdue first.
\* The comparison with the days overdue first and the box second.
DueCmpOverdueFirst(a, b) ==
    IF a.overdue # b.overdue THEN b.overdue - a.overdue ELSE a.box - b.box

DueCmp(a, b) == IF a.box # b.box THEN a.box - b.box ELSE b.overdue - a.overdue

\* due.sort(compare): Array.prototype.sort is stable, so an entry comes after
\* those that compare lower and those that compare equal and stood before it.
DueRank(s, i) ==
    Cardinality({j \in 1..Len(s) : (DueCmp(s[j], s[i]) < 0)
                                    \/ (DueCmp(s[j], s[i]) = 0 /\ j <= i)})

DueSort(s) ==
    With(s, LAMBDA a : [r \in 1..Len(a) |-> a[CHOOSE i \in 1..Len(a) : DueRank(a, i) = r]])

\* getDueItems(limit) on a loaded store; limit 0 stands for an omitted or
\* falsy limit.
DueItemsOf(store, t, limit) ==
    LET due == DueSort(DueLoop(store.exposure, t))
    IN  IF limit # 0 THEN SliceFirst(due, limit) ELSE due

\* getDueItems(limit): the slot it leaves and the list it returns.
GetDueItemsOp(slot, t, limit) ==
    IF Lacks(GetStore(slot, t).store, {"exposure"}) THEN Raised(GetStore(slot, t).slot)
    ELSE
    LET g == GetStore(slot, t)
    IN  [slot |-> g.slot, ret |-> DueItemsOf(g.store, t, limit)]

\* ------------------------------------------------------------- dosage calc

\* Math.round((score / totalQuestions) * 100): 0/0 is NaN, n/0 is Infinity.
PctOf(score, total) ==
    IF total = 0 THEN (IF score = 0 THEN NaN ELSE Infinity)
    ELSE Num(RoundPct(score, total))

\* The pass mark taken as more than 90.
Ge90Strict(p) == p.t = "Infinity" \/ (p.t = "num" /\ p.n > 90)

\* pct >= 90, which is false of NaN and of null (null >= 90 is 0 >= 90)
Ge90(p) == p.t = "Infinity" \/ (p.t = "num" /\ p.n >= 90)

\* recordDosageQuiz(score, totalQuestions): the slot it leaves and the
\* summary it returns.
RecordDosageQuizOp(slot, t, score, total) ==
    IF Lacks(GetStore(slot, t).store, {"dosageStreak"}) THEN Raised(GetStore(slot, t).slot)
    ELSE
    LET store  == GetStore(slot, t).store
        pct    == PctOf(score, total)
        ds     == store.dosageStreak
        pushed == Append(ds.recentScores,
                         [ts |-> t, score |-> score, total |-> total, pct |-> pct])
        recent == IF Len(pushed) > 20 THEN SliceLast(pushed, 20) ELSE pushed
        cur    == IF Ge90(pct) THEN ds.current + 1 ELSE 0
        best   == IF Ge90(pct) THEN Max(ds.best, cur) ELSE ds.best
        store1 == [store EXCEPT !.dosageStreak =
                      [current |-> cur, best |-> best, recentScores |-> recent]]
    IN  [slot |-> SaveStore(store1, t),
         ret  |-> [passed |-> Ge90(pct), pct |-> pct, streak |-> cur, best |-> best]]

\* pct as a summand: null counts 0.
PctValue(p) == IF p.t = "num" THEN p.n ELSE 0

RECURSIVE SumPct(_)
SumPct(scores) ==
    IF scores = << >> THEN 0 ELSE PctValue(Head(scores).pct) + SumPct(Tail(scores))

RECURSIVE CountPassed(_)
CountPassed(scores) ==
    IF scores = << >> THEN 0
    ELSE (IF Ge90(Head(scores).pct) THEN 1 ELSE 0) + CountPassed(Tail(scores))

\* Math.round(a / b) for a >= 0, b > 0
RoundDiv(a, b) == (2 * a + b) \div (2 * b)

\* getDosageStats() on a loaded store.
DosageStatsOf(store) ==
    LET scores == store.dosageStreak.recentScores
    IN  [streak        |-> store.dosageStreak.current,
         best          |-> store.dosageStreak.best,
         recentScores  |-> SliceLast(scores, 5),
         avgScore      |-> IF Len(scores) > 0
                           THEN Num(RoundDiv(SumPct(scores), Len(scores))) ELSE JNull,
         totalAttempts |-> Len(scores),
         passRate      |-> IF Len(scores) > 0
                           THEN Num(RoundPct(CountPassed(scores), Len(scores)))
                           ELSE JNull]

\* -------------------------------------------------------- wrong answer log

\* entry.field || ''
TextOf(entry, f) == IF f \in DOMAIN entry THEN entry[f] ELSE ""

\* 'wa_' + Date.now() + '_' + Math.random().toString(36).substr(2, 5): the
\* time and what the random part came out as.
WaId(t, rnd) == [ts |-> t, rnd |-> rnd]

\* The record addWrongAnswer builds.
NewWrongAnswer(t, entry, rnd) ==
    [id             |-> WaId(t, rnd),
     stem           |-> TextOf(entry, "stem"),
     yourAnswer     |-> TextOf(entry, "yourAnswer"),
     correctAnswer  |-> TextOf(entry, "correctAnswer"),
     whyTempting    |-> TextOf(entry, "whyTempting"),
     errorType      |-> TextOf(entry, "errorType"),
     concept        |-> TextOf(entry, "concept"),
     conceptArea    |-> TextOf(entry, "conceptArea"),
     source         |-> TextOf(entry, "source"),
     whatToRemember |-> TextOf(entry, "whatToRemember"),
     ts             |-> t,
     srBox          |-> 1,
     srNextDue      |-> t + 1 * DayMs,
     retestHistory  |-> << >>]

\* addWrongAnswer(entry): the slot it leaves and the record it returns.
AddWrongAnswerOp(slot, t, entry, rnd) ==
    IF Lacks(GetStore(slot, t).store, {"wrongAnswerLog"}) THEN Raised(GetStore(slot, t).slot)
    ELSE
    LET store  == GetStore(slot, t).store
        item   == NewWrongAnswer(t, entry, rnd)
        store1 == [store EXCEPT !.wrongAnswerLog = Append(@, item)]
    IN  [slot |-> SaveStore(store1, t), ret |-> item]

\* The test of getWrongAnswersDue with > for >=.
WaIsDueStrict(wa, t) == t > wa.srNextDue

\* now >= wa.srNextDue
WaIsDue(wa, t) == t >= wa.srNextDue

RECURSIVE WaDueOf(_, _)
\* store.wrongAnswerLog.filter(wa => now >= wa.srNextDue)
WaDueOf(log, t) ==
    IF log = << >> THEN << >>
    ELSE (IF WaIsDue(Head(log), t) THEN <<Head(log)>> ELSE << >>)
         \o WaDueOf(Tail(log), t)

\* getWrongAnswersDue(): the slot it leaves and the list it returns.
GetWrongAnswersDueOp(slot, t) ==
    IF Lacks(GetStore(slot, t).store, {"wrongAnswerLog"}) THEN Raised(GetStore(slot, t).slot)
    ELSE
    LET g == GetStore(slot, t)
    IN  [slot |-> g.slot, ret |-> WaDueOf(g.store.wrongAnswerLog, t)]

\* store.wrongAnswerLog.find(w => w.id === waId): the index of the first
\* record with that id, 0 when there is none.
FindWa(log, waId) ==
    LET hits == {i \in 1..Len(log) : log[i].id = waId}
    IN  IF hits = {} THEN 0 ELSE CHOOSE i \in hits : \A j \in hits : i <= j

\* The retested record with its next due time taken from the box it left.
RetestedOldInterval(wa, t, gotItRight) ==
    LET box == IF gotItRight THEN Min(wa.srBox + 1, 5) ELSE 1
    IN  [wa EXCEPT !.retestHistory = Append(@, [ts |-> t, correct |-> gotItRight]),
                   !.srBox = box,
                   !.srNextDue = t + SR_INTERVALS[wa.srBox] * DayMs]

\* The record retestWrongAnswer leaves of wa.
Retested(wa, t, gotItRight) ==
    LET box == IF gotItRight THEN Min(wa.srBox + 1, 5) ELSE 1
    IN  [wa EXCEPT !.retestHistory = Append(@, [ts |-> t, correct |-> gotItRight]),
                   !.srBox = box,
                   !.srNextDue = t + SR_INTERVALS[box] * DayMs]

\* retestWrongAnswer that saves before it looks the id up.
RetestSavesFirst(slot, t, waId, gotItRight) ==
    LET g == GetStore(slot, t)
        i == FindWa(g.store.wrongAnswerLog, waId)
    IN  IF i = 0 THEN [slot |-> SaveStore(g.store, t), ret |-> JNull]
        ELSE LET wa == Retested(g.store.wrongAnswerLog[i], t, gotItRight)
             IN  [slot |-> SaveStore([g.store EXCEPT !.wrongAnswerLog[i] = wa], t),
                  ret  |-> wa]

\* retestWrongAnswer(waId, gotItRight): the slot it leaves and what it
\* returns, null for an id the log does not hold.
RetestWrongAnswerOp(slot, t, waId, gotItRight) ==
    IF Lacks(GetStore(slot, t).store, {"wrongAnswerLog"}) THEN Raised(GetStore(slot, t).slot)
    ELSE
    LET g == GetStore(slot, t)
        i == FindWa(g.store.wrongAnswerLog, waId)
    IN  IF i = 0 THEN [slot |-> g.slot, ret |-> JNull]
        ELSE LET wa == Retested(g.store.wrongAnswerLog[i], t, gotItRight)
             IN  [slot |-> SaveStore([g.store EXCEPT !.wrongAnswerLog[i] = wa], t),
                  ret  |-> wa]

RECURSIVE Tally(_, _, _)
\* counts[wa[f]] = (counts[wa[f]] || 0) + 1 over the log; with skipEmpty, only
\* for a wa[f] that is not ''.
Tally(log, f, skipEmpty) ==
    IF log = << >> THEN << >>
    ELSE LET rest == Tally(SubSeq(log, 1, Len(log) - 1), f, skipEmpty)
             k    == log[Len(log)][f]
         IN  IF skipEmpty /\ k = "" THEN rest
             ELSE Put(rest, k, (IF Has(rest, k) THEN Get(rest, k) ELSE 0) + 1)

RECURSIVE CountMastered(_)
CountMastered(log) ==
    IF log = << >> THEN 0
    ELSE (IF Head(log).srBox >= 4 THEN 1 ELSE 0) + CountMastered(Tail(log))

\* getWrongAnswerStats() on a loaded store.
WrongAnswerStatsOf(store, t) ==
    LET log == store.wrongAnswerLog
    IN  [total        |-> Len(log),
         dueForRetest |-> Len(WaDueOf(log, t)),
         mastered     |-> CountMastered(log),
         errorTypes   |-> Tally(log, "errorType", FALSE),
         conceptAreas |-> Tally(log, "conceptArea", FALSE),
         sources      |-> Tally(log, "source", TRUE)]

\* ---------------------------------------------------- session & daily stats

\* A time zone that never sets its clocks back (UTC is one).
NoSetBack == -1

\* d.setDate(d.getDate() - i); d.toISOString().split('T')[0]: the UTC day of
\* the instant that is i local days before t at the same local time of day.
\* Where the zone keeps one offset that is the UTC day i back.  In a zone
\* ahead of UTC whose clocks went back an hour on setBackDay, the local time
\* of day of a t at UTC midnight is, on that day and before it, an instant an
\* hour earlier: in the last hour of the UTC day before.
StreakKey(t, i) ==
    IF /\ setBackDay # NoSetBack
       /\ t % DayMs = 0
       /\ DayKey(t) > setBackDay
       /\ DayKey(t) - i <= setBackDay
    THEN DayKey(t) - i - 1
    ELSE DayKey(t) - i

RECURSIVE StreakLoop(_, _, _, _)
\* The for loop of getStreak from day i on.
StreakLoop(dailyLog, t, i, streak) ==
    IF i >= 365 THEN streak
    ELSE IF Has(dailyLog, StreakKey(t, i)) /\ Get(dailyLog, StreakKey(t, i)).items > 0
         THEN StreakLoop(dailyLog, t, i + 1, streak + 1)
         ELSE IF i > 0 THEN streak
              ELSE StreakLoop(dailyLog, t, i + 1, streak)

\* getStreak() on a loaded store.
StreakOf(store, t) == StreakLoop(store.dailyLog, t, 0, 0)

\* getStreak(): the slot it leaves and the number it returns.
GetStreakOp(slot, t) ==
    IF Lacks(GetStore(slot, t).store, {"dailyLog"}) THEN Raised(GetStore(slot, t).slot)
    ELSE
    LET g == GetStore(slot, t)
    IN  [slot |-> g.slot, ret |-> StreakOf(g.store, t)]

\* -------------------------------------------------------- daily 10 generator

\* parts[0] || 'unknown', of key.split(':')
GuessProjectFromKey(key) == IF key[1] # "" THEN key[1] ELSE "unknown"

\* The retests with three taken for two.
DailyRetestsOfThree(store, t) == SliceFirst(WaDueOf(store.wrongAnswerLog, t), 3)

\* getWrongAnswersDue().slice(0, 2)
DailyRetestsOf(store, t) == SliceFirst(WaDueOf(store.wrongAnswerLog, t), 2)

RECURSIVE SpacedLoop(_, _)
\* The for loop over dueItems: it breaks once 10 items are there.
SpacedLoop(items, dueItems) ==
    IF dueItems = << >> \/ Len(items) >= 10 THEN items
    ELSE SpacedLoop(Append(items, [type    |-> "spaced-rep",
                                   data    |-> Head(dueItems),
                                   project |-> GuessProjectFromKey(Head(dueItems).key)]),
                    Tail(dueItems))

RECURSIVE WeakPracticeLoop(_, _)
\* The for loop over weaknesses: it breaks once 10 items are there.
WeakPracticeLoop(items, weaknesses) ==
    IF weaknesses = << >> \/ Len(items) >= 10 THEN items
    ELSE WeakPracticeLoop(
             Append(items, [type              |-> "weakness-practice",
                            conceptArea       |-> Head(weaknesses).conceptArea,
                            display           |-> Head(weaknesses).display,
                            score             |-> Head(weaknesses).score,
                            suggestedProjects |-> Head(weaknesses).flaggedByKeys]),
             Tail(weaknesses))

\* generateDaily10() on a loaded store.
Daily10Of(store, t) ==
    With(DueItemsOf(store, t, 10), LAMBDA dueItems :
    With(WeaknessesOf(store), LAMBDA weaknesses :
    With(DailyRetestsOf(store, t), LAMBDA waDue :
    With([i \in 1..Len(waDue) |->
             [type |-> "wrong-answer-retest", data |-> waDue[i],
              project |-> "wrong-answer-log"]], LAMBDA retests :
    With(SpacedLoop(retests, dueItems), LAMBDA spaced :
        IF Len(spaced) < 10 /\ Len(weaknesses) > 0
        THEN WeakPracticeLoop(spaced, weaknesses)
        ELSE spaced)))))

\* generateDaily10(): the slot it leaves and the list it returns.
GenerateDaily10Op(slot, t) ==
    IF Lacks(GetStore(slot, t).store, {"exposure", "weakness", "wrongAnswerLog"}) THEN Raised(GetStore(slot, t).slot)
    ELSE
    LET g == GetStore(slot, t)
    IN  [slot |-> g.slot, ret |-> Daily10Of(g.store, t)]

\* ------------------------------------------------------------ overall stats

RECURSIVE SumPerformance(_, _)
\* The sum of field f over every project of every area.
SumPerformance(performance, f) ==
    IF performance = << >> THEN 0
    ELSE SumField(Head(performance).val, f) + SumPerformance(Tail(performance), f)

\* getOverallStats() on a loaded store.
OverallStatsOf(store, t) ==
    LET totalCorrect  == SumPerformance(store.performance, "correct")
        totalAttempts == SumPerformance(store.performance, "total")
    IN  [totalAttempts |-> totalAttempts,
         accuracy      |-> IF totalAttempts > 0
                           THEN Num(RoundPct(totalCorrect, totalAttempts)) ELSE JNull,
         conceptScores |-> [area \in CONCEPT_AREAS |-> ConceptScoreOf(store, area)],
         weaknesses    |-> WeaknessesOf(store),
         streak        |-> StreakOf(store, t),
         exposureCount |-> Len(store.exposure),
         dueItems      |-> Len(DueItemsOf(store, t, 0)),
         dosage        |-> DosageStatsOf(store),
         wrongAnswers  |-> WrongAnswerStatsOf(store, t)]

\* getOverallStats(): the slot it leaves and the snapshot it returns.
GetOverallStatsOp(slot, t) ==
    IF Lacks(GetStore(slot, t).store, Collections \ {"sessions"}) THEN Raised(GetStore(slot, t).slot)
    ELSE
    LET g == GetStore(slot, t)
    IN  [slot |-> g.slot, ret |-> OverallStatsOf(g.store, t)]

\* ------------------------------------------------------- the other reads

\* getConceptScore(conceptArea): the slot it leaves and the score it returns.
GetConceptScoreOp(slot, t, conceptArea) ==
    IF Lacks(GetStore(slot, t).store, {"weakness"}) THEN Raised(GetStore(slot, t).slot)
    ELSE [slot |-> GetStore(slot, t).slot,
          ret  |-> ConceptScoreOf(GetStore(slot, t).store, conceptArea)]

\* getDosageStats(): the slot it leaves and the statistics it returns.
GetDosageStatsOp(slot, t) ==
    IF Lacks(GetStore(slot, t).store, {"dosageStreak"}) THEN Raised(GetStore(slot, t).slot)
    ELSE [slot |-> GetStore(slot, t).slot, ret |-> DosageStatsOf(GetStore(slot, t).store)]

\* getWrongAnswerStats(): the slot it leaves and the statistics it returns.
GetWrongAnswerStatsOp(slot, t) ==
    IF Lacks(GetStore(slot, t).store, {"wrongAnswerLog"})
    THEN Raised(GetStore(slot, t).slot)
    ELSE [slot |-> GetStore(slot, t).slot,
          ret  |-> WrongAnswerStatsOf(GetStore(slot, t).store, t)]

RECURSIVE SessionsSince(_, _)
\* store.sessions.filter(s => s.ts >= cutoff)
SessionsSince(sessions, cutoff) ==
    IF sessions = << >> THEN << >>
    ELSE (IF Head(sessions).ts >= cutoff THEN <<Head(sessions)>> ELSE << >>)
         \o SessionsSince(Tail(sessions), cutoff)

\* getSessionHistory(days): the slot it leaves and the sessions it returns.
GetSessionHistoryOp(slot, t, days) ==
    IF Lacks(GetStore(slot, t).store, {"sessions"}) THEN Raised(GetStore(slot, t).slot)
    ELSE [slot |-> GetStore(slot, t).slot,
          ret  |-> SessionsSince(GetStore(slot, t).store.sessions, t - days * DayMs)]

RECURSIVE DailyLogLoop(_, _, _, _, _)
\* The for loop of getDailyLog from day i on: the log entry of each day, or
\* an entry of zeros.
DailyLogLoop(dailyLog, t, i, n, result) ==
    IF i >= n THEN result
    ELSE DailyLogLoop(dailyLog, t, i + 1, n,
             Put(result, StreakKey(t, i),
                 IF Has(dailyLog, StreakKey(t, i)) THEN Get(dailyLog, StreakKey(t, i))
                 ELSE [items |-> 0, correct |-> 0, projects |-> << >>]))

\* getDailyLog(days): the slot it leaves and the days it returns; 30 days
\* when days is 0.
GetDailyLogOp(slot, t, days) ==
    IF Lacks(GetStore(slot, t).store, {"dailyLog"}) THEN Raised(GetStore(slot, t).slot)
    ELSE [slot |-> GetStore(slot, t).slot,
          ret  |-> DailyLogLoop(GetStore(slot, t).store.dailyLog, t, 0,
                                IF days = 0 THEN 30 ELSE days, << >>)]

RECURSIVE LastUsedLoop(_, _, _)
\* The latest ts of the last history entries of a project over the areas.
LastUsedLoop(performance, projectKey, lastUsed) ==
    IF performance = << >> THEN lastUsed
    ELSE IF /\ Has(Head(performance).val, projectKey)
            /\ Get(Head(performance).val, projectKey).history # << >>
         THEN LET h == Get(Head(performance).val, projectKey).history
              IN  LastUsedLoop(Tail(performance), projectKey, Max(lastUsed, h[Len(h)].ts))
         ELSE LastUsedLoop(Tail(performance), projectKey, lastUsed)

RECURSIVE SumProject(_, _, _)
\* The sum of field f of a project's records over the areas.
SumProject(performance, projectKey, f) ==
    IF performance = << >> THEN 0
    ELSE (IF Has(Head(performance).val, projectKey)
          THEN Get(Head(performance).val, projectKey)[f] ELSE 0)
         + SumProject(Tail(performance), projectKey, f)

\* The due items whose key starts with projectKey + ':'.
DueCountOf(store, t, projectKey) ==
    Cardinality({i \in 1..Len(DueItemsOf(store, t, 0)) :
                    DueItemsOf(store, t, 0)[i].key[1] = projectKey})

\* getProjectStatus(projectKey) on a loaded store.
ProjectStatusOf(store, t, projectKey) ==
    LET totalCorrect  == SumProject(store.performance, projectKey, "correct")
        totalAttempts == SumProject(store.performance, projectKey, "total")
        lastUsed      == LastUsedLoop(store.performance, projectKey, 0)
        dueCount      == DueCountOf(store, t, projectKey)
    IN  [totalAttempts |-> totalAttempts,
         accuracy      |-> IF totalAttempts > 0
                           THEN Num(RoundPct(totalCorrect, totalAttempts)) ELSE JNull,
         lastUsed      |-> IF lastUsed = 0 THEN JNull ELSE Num(lastUsed),
         dueForReview  |-> dueCount,
         status        |-> IF totalAttempts = 0 THEN "not-started"
                           ELSE IF dueCount > 0 THEN "items-due" ELSE "in-progress"]

\* getProjectStatus(projectKey): the slot it leaves and the status it returns.
GetProjectStatusOp(slot, t, projectKey) ==
    IF Lacks(GetStore(slot, t).store, {"performance", "exposure"})
    THEN Raised(GetStore(slot, t).slot)
    ELSE [slot |-> GetStore(slot, t).slot,
          ret  |-> ProjectStatusOf(GetStore(slot, t).store, t, projectKey)]

\* ---------------------------------------------------------- export / reset

\* exportData that stamps the time of the export as the time of creation.
ExportDataRestamped(slot, t) ==
    LET g == GetStore(slot, t)
    IN  [slot |-> g.slot, ret |-> Stringify([g.store EXCEPT !._created = t], 2)]

\* exportData(): the slot it leaves and the text it returns.
ExportDataOp(slot, t) ==
    LET g == GetStore(slot, t)
    IN  [slot |-> g.slot, ret |-> Stringify(g.store, 2)]

\* data._version, as a condition: there, and not 0.
HasVersion(data) == "_version" \in DOMAIN data /\ data._version # 0

\* importData that writes the slot before it looks at the version.
ImportDataUnchecked(slot, text) ==
    IF ParseThrows(text) \/ text.kind = "absent" THEN [slot |-> slot, ret |-> FALSE]
    ELSE [slot |-> text, ret |-> text.kind = "json" /\ HasVersion(Parse(text))]

\* importData(jsonString): the slot it leaves and the boolean it returns.  A
\* text that does not parse, and one that parses to null (reading
\* null._version throws inside the try), give false.
ImportDataOp(slot, text) ==
    IF ParseThrows(text) \/ text.kind \in {"absent", "null"}
    THEN [slot |-> slot, ret |-> FALSE]
    ELSE IF HasVersion(Parse(text)) THEN [slot |-> text, ret |-> TRUE]
    ELSE [slot |-> slot, ret |-> FALSE]

\* resetAll(): the slot it leaves and the store it returns.
ResetAllOp(slot, t) ==
    LET g == CreateFreshStore(t)
    IN  [slot |-> g.slot, ret |-> g.store]

\* ----------------------------------------------------------------- actions

\* A bound of the model: the calls of trackExposure, over all keys.
MaxTracks == 6

\* The instants the clock is read at, in clock units: 12 hours, and each
\* Leitner interval (1, 3, 7, 14 and 30 days).  A record last seen at 0 is
\* then read at its interval exactly, and one last seen at 1 half a day before.
Instants == {0, 1, 2, 6, 14, 28, 60}

\* A day apart: all that the operations that read no interval need.
TwoInstants == {0, 2}

\* An item key is "projectKey:itemId"; the model keeps it as key.split(':').
ItemKeys == {<<"toolA", "q1">>, <<"toolB", "q2">>}

\* The clock moves on to a later instant.
Tick(instants) ==
    /\ \E t \in instants : t > now /\ now' = t
    /\ call' = [op |-> "tick", args |-> << >>]
    /\ ret' = << >>
    /\ UNCHANGED <<storage, exported, discarded, phase, correctRun, quizzes, recorded,
                   setBackDay>>
    /\ found' = storage.kind

\* The document in the slot, when the slot holds one.
SlotHasDoc == storage.kind = "json"

SlotDoc == Parse(storage)

SlotExposure ==
    IF SlotHasDoc /\ ~Lacks(SlotDoc, {"exposure"}) THEN SlotDoc.exposure ELSE << >>

TimesSeenInSlot(k) ==
    IF Has(SlotExposure, k) THEN Get(SlotExposure, k).timesSeen ELSE 0

RECURSIVE SumTimesSeen(_)
SumTimesSeen(exposure) ==
    IF exposure = << >> THEN 0
    ELSE Head(exposure).val.timesSeen + SumTimesSeen(Tail(exposure))

TrackExposure(itemKey, wasCorrect) ==
    /\ SumTimesSeen(SlotExposure) < MaxTracks
    /\ LET r == TrackExposureOp(storage, now, itemKey, wasCorrect)
       IN  /\ storage' = r.slot
           /\ ret' = r.ret
    /\ call' = [op |-> "trackExposure", args |-> <<itemKey, wasCorrect>>]
    /\ correctRun' = [correctRun EXCEPT ![itemKey] = IF wasCorrect THEN @ + 1 ELSE 0]
    /\ phase' = "none"
    /\ UNCHANGED <<now, exported, discarded, quizzes, recorded, setBackDay>>
    /\ found' = storage.kind

GetDueItems(limit) ==
    /\ LET r == GetDueItemsOp(storage, now, limit)
       IN  /\ storage' = r.slot
           /\ ret' = r.ret
    /\ call' = [op |-> "getDueItems", args |-> <<limit>>]
    /\ phase' = "none"
    /\ UNCHANGED <<now, exported, discarded, correctRun, quizzes, recorded, setBackDay>>
    /\ found' = storage.kind

\* Bounds of the model: the calls of recordDosageQuiz, and those among them
\* with another result than 9 of 10.
MaxQuizzes == 21

MaxOtherQuizzes == 1

\* score, totalQuestions: a pass at the mark, a fail, and a quiz of no
\* questions.
QuizInputs == {<<9, 10>>, <<7, 10>>, <<0, 0>>}

RecordDosageQuiz(score, total) ==
    /\ quizzes.all < MaxQuizzes
    /\ <<score, total>> # <<9, 10>> => quizzes.other < MaxOtherQuizzes
    /\ LET r == RecordDosageQuizOp(storage, now, score, total)
       IN  /\ storage' = r.slot
           /\ ret' = r.ret
    /\ call' = [op |-> "recordDosageQuiz", args |-> <<score, total>>]
    /\ quizzes' = [all   |-> quizzes.all + 1,
                   other |-> quizzes.other + (IF <<score, total>> # <<9, 10>> THEN 1 ELSE 0)]
    /\ phase' = "none"
    /\ UNCHANGED <<now, exported, discarded, correctRun, recorded, setBackDay>>
    /\ found' = storage.kind

\* Bounds of the model: the records of the wrong-answer log, and the retests
\* of all of them, where the clock is read often and where it is not.
MaxLedger == 2

MaxRetests == 5

MaxEarlyRetests == 2

\* Half a day and a day after the start: a new record is due a day on.
LedgerInstants == {0, 1, 2}

\* What the caller passes to addWrongAnswer: an entry with some of the fields.
WaEntries == {[stem |-> "q1", errorType |-> "knowledge", conceptArea |-> "cardiac",
               source |-> "quiz-prep"]}

\* What Math.random() may give: two calls can agree.
RandomParts == {"a1b2c", "z9y8x"}

\* An id that addWrongAnswer never gave.
UnknownId == WaId(0, "none")

SlotLedger ==
    IF SlotHasDoc /\ ~Lacks(SlotDoc, {"wrongAnswerLog"}) THEN SlotDoc.wrongAnswerLog
    ELSE << >>

RECURSIVE SumRetests(_)
SumRetests(log) ==
    IF log = << >> THEN 0 ELSE Len(Head(log).retestHistory) + SumRetests(Tail(log))

AddWrongAnswer(entry, rnd) ==
    /\ Len(SlotLedger) < MaxLedger
    /\ LET r == AddWrongAnswerOp(storage, now, entry, rnd)
       IN  /\ storage' = r.slot
           /\ ret' = r.ret
    /\ call' = [op |-> "addWrongAnswer", args |-> <<entry, rnd>>]
    /\ phase' = "none"
    /\ UNCHANGED <<now, exported, discarded, correctRun, quizzes, recorded, setBackDay>>
    /\ found' = storage.kind

GetWrongAnswersDue ==
    /\ LET r == GetWrongAnswersDueOp(storage, now)
       IN  /\ storage' = r.slot
           /\ ret' = r.ret
    /\ call' = [op |-> "getWrongAnswersDue", args |-> << >>]
    /\ phase' = "none"
    /\ UNCHANGED <<now, exported, discarded, correctRun, quizzes, recorded, setBackDay>>
    /\ found' = storage.kind

RetestWrongAnswer(waId, gotItRight) ==
    /\ LET r == RetestWrongAnswerOp(storage, now, waId, gotItRight)
       IN  /\ storage' = r.slot
           /\ ret' = r.ret
    /\ call' = [op |-> "retestWrongAnswer", args |-> <<waId, gotItRight>>]
    /\ phase' = "none"
    /\ UNCHANGED <<now, exported, discarded, correctRun, quizzes, recorded, setBackDay>>
    /\ found' = storage.kind

ExportData ==
    /\ LET r == ExportDataOp(storage, now)
       IN  /\ storage' = r.slot
           /\ ret' = r.ret
           /\ exported' = r.ret
    /\ call' = [op |-> "exportData", args |-> << >>]
    /\ phase' = "exported"
    /\ UNCHANGED <<now, discarded, correctRun, quizzes, recorded, setBackDay>>
    /\ found' = storage.kind

ResetAll ==
    /\ LET r == ResetAllOp(storage, now)
       IN  /\ storage' = r.slot
           /\ ret' = r.ret
    /\ call' = [op |-> "resetAll", args |-> << >>]
    /\ discarded' = storage
    /\ phase' = IF phase = "exported" THEN "reset" ELSE "none"
    /\ UNCHANGED <<now, exported, correctRun, quizzes, recorded, setBackDay>>
    /\ found' = storage.kind

ImportData(text) ==
    /\ LET r == ImportDataOp(storage, text)
       IN  /\ storage' = r.slot
           /\ ret' = r.ret
    /\ call' = [op |-> "importData", args |-> <<text>>]
    /\ phase' = IF phase = "reset" /\ text = exported THEN "restored" ELSE "none"
    /\ UNCHANGED <<now, exported, discarded, correctRun, quizzes, recorded, setBackDay>>
    /\ found' = storage.kind

\* A text exported by a later version of the program: a document of version 2
\* with one wrong answer, added at 0 and never retested.
StaleLedgerText ==
    Stringify([FreshDoc(0) EXCEPT
                  !._version = 2,
                  !.wrongAnswerLog = <<NewWrongAnswer(0, << >>, "k3j2h")>>], 2)

RecordResult(projectKey, conceptArea, correct, total) ==
    /\ LET r == RecordResultOp(storage, now, projectKey, conceptArea, correct, total, JNull)
       IN  /\ storage' = r.slot
           /\ ret' = r.ret
    /\ call' = [op |-> "recordResult", args |-> <<projectKey, conceptArea, correct, total>>]
    /\ recorded' = Append(recorded, [ts |-> now, project |-> projectKey,
                                     conceptArea |-> conceptArea,
                                     correct |-> correct, total |-> total])
    /\ phase' = "none"
    /\ UNCHANGED <<now, exported, discarded, correctRun, quizzes, setBackDay>>
    /\ found' = storage.kind

GenerateDaily10 ==
    /\ \E r \in {GenerateDaily10Op(storage, now)} :
           /\ storage' = r.slot
           /\ ret' = r.ret
    /\ call' = [op |-> "generateDaily10", args |-> << >>]
    /\ phase' = "none"
    /\ UNCHANGED <<now, exported, discarded, correctRun, quizzes, recorded, setBackDay>>
    /\ found' = storage.kind

GetOverallStats ==
    /\ LET r == GetOverallStatsOp(storage, now)
       IN  /\ storage' = r.slot
           /\ ret' = r.ret
    /\ call' = [op |-> "getOverallStats", args |-> << >>]
    /\ UNCHANGED <<now, exported, discarded, phase, correctRun, quizzes, recorded, setBackDay>>
    /\ found' = storage.kind

\* After construction nothing has touched the slot.
Init ==
    /\ storage = Absent
    /\ now = 0
    /\ call = [op |-> "init", args |-> << >>]
    /\ ret = << >>
    /\ exported = Absent
    /\ discarded = Absent
    /\ phase = "none"
    /\ correctRun = [k \in ItemKeys |-> 0]
    /\ quizzes = [all |-> 0, other |-> 0]
    /\ recorded = << >>
    /\ setBackDay = NoSetBack
    /\ found = "none"

\* The spaced-repetition engine on its own.
NextExposure ==
    \/ Tick(TwoInstants)
    \/ \E k \in ItemKeys, c \in BOOLEAN : TrackExposure(k, c)

SpecExposure == Init /\ [][NextExposure]_vars

\* The same with the clock read around every interval, and the due list.
NextDue ==
    \/ Tick(Instants)
    \/ \E k \in ItemKeys, c \in BOOLEAN : TrackExposure(k, c)
    \/ GetDueItems(0)

SpecDue == Init /\ [][NextDue]_vars

\* The dosage drill on its own.
NextDosage ==
    \/ Tick(TwoInstants)
    \/ \E q \in QuizInputs : RecordDosageQuiz(q[1], q[2])

SpecDosage == Init /\ [][NextDosage]_vars

\* The wrong-answer log on its own.
\* The ids a caller may pass: those of the log, and one it never gave.
SomeIds == {SlotLedger[i].id : i \in 1..Len(SlotLedger)} \cup {UnknownId}

Retest(max) ==
    /\ SumRetests(SlotLedger) < max
    /\ \E id \in SomeIds, c \in BOOLEAN : RetestWrongAnswer(id, c)

NextLedger ==
    \/ Tick(LedgerInstants)
    \/ \E e \in WaEntries, r \in RandomParts : AddWrongAnswer(e, r)
    \/ Retest(MaxEarlyRetests)
    \/ GetWrongAnswersDue
    \/ ImportData(StaleLedgerText)

SpecLedger == Init /\ [][NextLedger]_vars

\* The same with retests enough to reach box 5 and stay there.
NextRetest ==
    \/ Tick(TwoInstants)
    \/ \E e \in WaEntries, r \in RandomParts : AddWrongAnswer(e, r)
    \/ Retest(MaxRetests)

SpecRetest == Init /\ [][NextRetest]_vars

\* ------------------------------------------------- the daily 10 on a store

\* Bounds of the model: how many items have been tracked, how many results
\* recorded and how many wrong answers added when the daily 10 is asked for.
MaxDailyItems == 16

MaxDailyResults == 5

MaxDailyWrong == 3

\* The n-th item tracked: the projects take turns.
DailyKey(n) ==
    <<(CASE n % 3 = 0 -> "cardiac-pharm" [] n % 3 = 1 -> "shock-simulator"
         [] OTHER -> ""),
      <<"q01", "q02", "q03", "q04", "q05", "q06", "q07", "q08", "q09", "q10",
        "q11", "q12", "q13", "q14", "q15", "q16", "q17", "q18", "q19", "q20">>[n]>>

\* The n-th result recorded: correct of total, in an area.  With four
\* attempts, 2, 0, 1 and 3 correct leave a weak area; 4 correct do not, nor do
\* two attempts.
DailyResult(n) ==
    <<[area |-> "cardiac", correct |-> 2, total |-> 4],
      [area |-> "oxygenation", correct |-> 0, total |-> 4],
      [area |-> "fluid-electrolytes", correct |-> 4, total |-> 4],
      [area |-> "cognition-sensation", correct |-> 1, total |-> 4],
      [area |-> "emergency-disaster", correct |-> 1, total |-> 2],
      [area |-> "pharmacology", correct |-> 3, total |-> 4],
      [area |-> "cardiac", correct |-> 4, total |-> 4]>>[n]

\* The results recorded so far, as the sessions array has them.
SlotSessions == IF SlotHasDoc THEN SlotDoc.sessions ELSE << >>

\* trackExposure of the next item, at time 0 and before any result is
\* recorded: every third item with a correct answer.
DailyTrack ==
    /\ now = 0
    /\ SlotSessions = << >>
    /\ SlotLedger = << >>
    /\ Len(SlotExposure) < MaxDailyItems
    /\ \E n \in {Len(SlotExposure) + 1} :
           /\ \E r \in {TrackExposureOp(storage, now, DailyKey(n), n % 3 = 0)} :
                  /\ storage' = r.slot
                  /\ ret' = r.ret
           /\ call' = [op |-> "trackExposure", args |-> <<DailyKey(n), n % 3 = 0>>]
    /\ phase' = "none"
    /\ UNCHANGED <<now, exported, discarded, correctRun, quizzes, recorded, setBackDay>>
    /\ found' = storage.kind

\* recordResult of the next result, at time 0 and before any wrong answer is
\* added.
DailyRecord ==
    /\ now = 0
    /\ SlotLedger = << >>
    /\ Len(SlotSessions) < MaxDailyResults
    /\ \E d \in {DailyResult(Len(SlotSessions) + 1)} :
           /\ \E r \in {RecordResultOp(storage, now, "quiz-prep", d.area, d.correct,
                                        d.total, JNull)} :
                  /\ storage' = r.slot
                  /\ ret' = r.ret
           /\ call' = [op |-> "recordResult",
                       args |-> <<"quiz-prep", d.area, d.correct, d.total>>]
           /\ recorded' = Append(recorded, [ts |-> now, project |-> "quiz-prep",
                                            conceptArea |-> d.area,
                                            correct |-> d.correct, total |-> d.total])
    /\ phase' = "none"
    /\ UNCHANGED <<now, exported, discarded, correctRun, quizzes, setBackDay>>
    /\ found' = storage.kind

\* addWrongAnswer, the i-th half a day after the one before it.
DailyAddWrong ==
    /\ now = Len(SlotLedger)
    /\ Len(SlotLedger) < MaxDailyWrong
    /\ \E e \in {[stem |-> "q", conceptArea |-> "cardiac"]} :
           /\ \E r \in {AddWrongAnswerOp(storage, now, e, "a1b2c")} :
                  /\ storage' = r.slot
                  /\ ret' = r.ret
           /\ call' = [op |-> "addWrongAnswer", args |-> <<e, "a1b2c">>]
    /\ phase' = "none"
    /\ UNCHANGED <<now, exported, discarded, correctRun, quizzes, recorded, setBackDay>>
    /\ found' = storage.kind

\* The instants of the daily 10: every half day of the first two days, and
\* the third day.
DailyInstants == {1, 2, 3, 4, 6}

NextDaily ==
    \/ Tick(DailyInstants)
    \/ DailyTrack
    \/ DailyRecord
    \/ DailyAddWrong
    \/ GenerateDaily10

SpecDaily == Init /\ [][NextDaily]_vars

\* Export, reset and import, after a few operations of each kind have written
\* the document.  Bounds of the model: the calls of trackExposure, of
\* recordResult, of recordDosageQuiz and of addWrongAnswer before the first
\* export.
MaxTripTracks == 1

MaxTripResults == 1

MaxTripQuizzes == 1

MaxTripWrong == 1

\* projectKey, conceptArea, correct, total
TripResults == {<<"quiz-prep", "cardiac", 1, 4>>}

\* A quiz of no questions leaves a pct that JSON writes as null.
TripQuizzes == {<<9, 10>>, <<0, 0>>}

\* A fresh document written without its _version field.
VersionlessText ==
    Stringify([f \in DOMAIN FreshDoc(0) \ {"_version"} |-> FreshDoc(0)[f]], 2)

\* A fresh document written with a _version of 0.
ZeroVersionText == Stringify([FreshDoc(0) EXCEPT !._version = 0], 2)

\* What the caller may hand to importData, besides the text it exported.
Payloads == {Garbage, NullText, VersionlessText, ZeroVersionText, StaleLedgerText}

TripTrack ==
    /\ exported = Absent
    /\ SumTimesSeen(SlotExposure) < MaxTripTracks
    /\ \E k \in ItemKeys, c \in BOOLEAN : TrackExposure(k, c)

TripResult ==
    /\ exported = Absent
    /\ Len(SlotSessions) < MaxTripResults
    /\ \E r \in TripResults : RecordResult(r[1], r[2], r[3], r[4])

TripQuiz ==
    /\ exported = Absent
    /\ quizzes.all < MaxTripQuizzes
    /\ \E q \in TripQuizzes : RecordDosageQuiz(q[1], q[2])

TripWrong ==
    /\ exported = Absent
    /\ Len(SlotLedger) < MaxTripWrong
    /\ \E e \in WaEntries : AddWrongAnswer(e, "a1b2c")

\* exportData, once.
TripExport == exported = Absent /\ ExportData

\* resetAll, called on what was just exported.
TripReset == phase = "exported" /\ ResetAll

\* importData, before anything is written or after the export.
TripImport ==
    /\ storage = Absent \/ exported # Absent
    /\ \E text \in Payloads \cup {exported} : ImportData(text)

NextRoundTrip ==
    \/ Tick(TwoInstants)
    \/ TripTrack
    \/ TripResult
    \/ TripQuiz
    \/ TripWrong
    \/ TripExport
    \/ TripReset
    \/ TripImport
    \/ GetOverallStats

SpecRoundTrip == Init /\ [][NextRoundTrip]_vars

\* A read: the slot it leaves (the load may write it) and what it returns.
ReadCall(name, args, r) ==
    /\ storage' = r.slot
    /\ ret' = r.ret
    /\ call' = [op |-> name, args |-> args]
    /\ phase' = "none"
    /\ UNCHANGED <<now, exported, discarded, correctRun, quizzes, recorded, setBackDay>>
    /\ found' = storage.kind

GetConceptScore(conceptArea) ==
    ReadCall("getConceptScore", <<conceptArea>>,
             GetConceptScoreOp(storage, now, conceptArea))

GetDosageStats == ReadCall("getDosageStats", << >>, GetDosageStatsOp(storage, now))

GetWrongAnswerStats ==
    ReadCall("getWrongAnswerStats", << >>, GetWrongAnswerStatsOp(storage, now))

GetSessionHistory(days) ==
    ReadCall("getSessionHistory", <<days>>, GetSessionHistoryOp(storage, now, days))

GetDailyLog(days) == ReadCall("getDailyLog", <<days>>, GetDailyLogOp(storage, now, days))

GetProjectStatus(projectKey) ==
    ReadCall("getProjectStatus", <<projectKey>>,
             GetProjectStatusOp(storage, now, projectKey))

\* Performance and weakness on their own.  A bound of the model: the calls of
\* recordResult.
MaxPerfResults == 3

\* projectKey, conceptArea, correct, total: a poor and a full result of one
\* tool in an area, a middling one of another tool in it, a result of two
\* questions, one with more correct than questions, one of 23 in 40, and one
\* of no questions.
PerfInputs ==
    {<<"quiz-prep", "cardiac", 1, 4>>,
     <<"quiz-prep", "cardiac", 4, 4>>,
     <<"cardiac-pharm", "cardiac", 2, 3>>,
     <<"quiz-prep", "oxygenation", 1, 2>>,
     <<"quiz-prep", "oxygenation", 5, 4>>,
     <<"quiz-prep", "fluid-electrolytes", 23, 40>>,
     <<"quiz-prep", "emergency-disaster", 0, 0>>}

PerfRecord ==
    /\ Len(recorded) < MaxPerfResults
    /\ \E r \in PerfInputs : RecordResult(r[1], r[2], r[3], r[4])

GetWeaknesses ==
    /\ \E r \in {GetWeaknessesOp(storage, now)} :
           /\ storage' = r.slot
           /\ ret' = r.ret
    /\ call' = [op |-> "getWeaknesses", args |-> << >>]
    /\ phase' = "none"
    /\ UNCHANGED <<now, exported, discarded, correctRun, quizzes, recorded, setBackDay>>
    /\ found' = storage.kind

NextPerformance ==
    \/ Tick(TwoInstants)
    \/ PerfRecord
    \/ GetWeaknesses

SpecPerformance == Init /\ [][NextPerformance]_vars

\* A long run of results on one area.  A bound of the model: the calls of
\* recordResult, enough for one record to pass 50 results.
MaxHistoryResults == 60

\* The n-th call of the run: every seventh is a result of one question by
\* another tool, the others are n % 4 of 4 by the quiz.
HistInput(n) ==
    IF n % 7 = 0 THEN <<"cardiac-pharm", "cardiac", 1, 1>>
    ELSE <<"quiz-prep", "cardiac", n % 4, 4>>

HistRecord ==
    /\ Len(recorded) < MaxHistoryResults
    /\ \E r \in {HistInput(Len(recorded) + 1)} : RecordResult(r[1], r[2], r[3], r[4])

NextHistory ==
    \/ Tick(TwoInstants)
    \/ HistRecord

SpecHistory == Init /\ [][NextHistory]_vars

\* The streak on its own.  A bound of the model: the calls of recordResult.
MaxStreakResults == 4

\* Midnight (UTC) of days 0 to 5, and noon of day 3.
StreakInstants == {0, 2, 4, 6, 7, 8, 10}

\* The days on which the zone may have set its clocks back.
SetBackDays == {2, 3}

\* A result of one question, and one of none.
StreakInputs ==
    {<<"quiz-prep", "cardiac", 1, 1>>,
     <<"quiz-prep", "cardiac", 0, 0>>}

\* The page opens in a browser of some time zone.
InitStreak ==
    /\ storage = Absent
    /\ now = 0
    /\ call = [op |-> "init", args |-> << >>]
    /\ ret = << >>
    /\ exported = Absent
    /\ discarded = Absent
    /\ phase = "none"
    /\ correctRun = [k \in ItemKeys |-> 0]
    /\ quizzes = [all |-> 0, other |-> 0]
    /\ recorded = << >>
    /\ setBackDay \in {NoSetBack} \cup SetBackDays
    /\ found = "none"

StreakRecord ==
    /\ Len(recorded) < MaxStreakResults
    /\ \E r \in StreakInputs : RecordResult(r[1], r[2], r[3], r[4])

GetStreak ==
    /\ \E r \in {GetStreakOp(storage, now)} :
           /\ storage' = r.slot
           /\ ret' = r.ret
    /\ call' = [op |-> "getStreak", args |-> << >>]
    /\ phase' = "none"
    /\ UNCHANGED <<now, exported, discarded, correctRun, quizzes, recorded, setBackDay>>
    /\ found' = storage.kind

NextStreak ==
    \/ Tick(StreakInstants)
    \/ StreakRecord
    \/ GetStreak

SpecStreak == InitStreak /\ [][NextStreak]_vars

\* Every operation of the public interface, on whatever the slot holds when the
\* page opens and on what importData puts there.  A bound of the model: the
\* calls of the writing operations, retests apart.
MaxLoadWrites == 1

\* The slot when the page opens: empty, a text that does not parse, the text
\* null.
LoadSlots == {Absent, Garbage, NullText}

\* A document with a version field and nothing else, of this version and of
\* another.
VersionOnlyText == Stringify([_version |-> VERSION], 0)

OtherVersionOnlyText == Stringify([_version |-> 2], 0)

\* What the caller hands to importData.
LoadPayloads == {Garbage, VersionOnlyText, OtherVersionOnlyText, StaleLedgerText}

InitLoad ==
    /\ storage \in LoadSlots
    /\ now = 0
    /\ call = [op |-> "init", args |-> << >>]
    /\ ret = << >>
    /\ exported = Absent
    /\ discarded = Absent
    /\ phase = "none"
    /\ correctRun = [k \in ItemKeys |-> 0]
    /\ quizzes = [all |-> 0, other |-> 0]
    /\ recorded = << >>
    /\ setBackDay = NoSetBack
    /\ found = "none"

\* The writing calls so far, as far as the document in the slot shows them.
LoadWrites == Len(recorded) + quizzes.all + SumTimesSeen(SlotExposure) + Len(SlotLedger)

LoadRecord ==
    /\ LoadWrites < MaxLoadWrites
    /\ RecordResult("quiz-prep", "cardiac", 1, 4)

LoadTrack ==
    /\ LoadWrites < MaxLoadWrites
    /\ TrackExposure(<<"toolA", "q1">>, FALSE)

LoadQuiz ==
    /\ LoadWrites < MaxLoadWrites
    /\ RecordDosageQuiz(9, 10)

LoadAddWrong ==
    /\ LoadWrites < MaxLoadWrites
    /\ \E e \in WaEntries : AddWrongAnswer(e, "a1b2c")

LoadRetest ==
    /\ SumRetests(SlotLedger) < 1
    /\ \E id \in SomeIds : RetestWrongAnswer(id, TRUE)

\* One export or one reset in a session.
LoadExport == exported = Absent /\ discarded = Absent /\ ExportData

LoadReset == exported = Absent /\ discarded = Absent /\ ResetAll

LoadImport == \E text \in LoadPayloads : ImportData(text)

NextLoad ==
    \/ Tick(TwoInstants)
    \/ LoadRecord
    \/ LoadTrack
    \/ LoadQuiz
    \/ LoadAddWrong
    \/ LoadRetest
    \/ GetWeaknesses
    \/ GetConceptScore("cardiac")
    \/ GetDueItems(0)
    \/ GetDosageStats
    \/ GetWrongAnswersDue
    \/ GetWrongAnswerStats
    \/ GetSessionHistory(1)
    \/ GetDailyLog(2)
    \/ GetStreak
    \/ GenerateDaily10
    \/ GetProjectStatus("quiz-prep")
    \/ GetOverallStats
    \/ LoadExport
    \/ LoadImport
    \/ LoadReset

SpecLoad == InitLoad /\ [][NextLoad]_vars

\* The order of the due list.  A bound of the model: the calls of
\* trackExposure, over all keys.
MaxOrderTracks == 3

\* Three items, two of them of one tool.
OrderKeys == ItemKeys \cup {<<"toolA", "q3">>}

\* Midnight of days 0 to 4.
OrderInstants == {0, 2, 4, 6, 8}

\* No limit given, and limits below and above the number of items.
Limits == {0, 1, 2, 4}

OrderTrack ==
    /\ SumTimesSeen(SlotExposure) < MaxOrderTracks
    /\ \E k \in OrderKeys, c \in BOOLEAN :
          /\ \E r \in {TrackExposureOp(storage, now, k, c)} :
                 /\ storage' = r.slot
                 /\ ret' = r.ret
          /\ call' = [op |-> "trackExposure", args |-> <<k, c>>]
    /\ phase' = "none"
    /\ UNCHANGED <<now, exported, discarded, correctRun, quizzes, recorded, setBackDay>>
    /\ found' = storage.kind

NextOrder ==
    \/ Tick(OrderInstants)
    \/ OrderTrack
    \/ \E limit \in Limits : GetDueItems(limit)

SpecOrder == Init /\ [][NextOrder]_vars

\* ------------------------------------------------------------------ claims

\* The exposure record of key k in a slot text, and whether it has one.
ExposureIn(text) == IF text.kind = "json" THEN Parse(text).exposure ELSE << >>

\* What trackExposure starts from for a key: its record, or the one it
\* creates.
RecordBefore(k) ==
    IF Has(SlotExposure, k) THEN Get(SlotExposure, k)
    ELSE [lastSeen |-> now, timesSeen |-> 0, box |-> 1]

\* One step of trackExposure(k, c), as C1 states it.
C1_Step(k, c) ==
    LET before == RecordBefore(k)
        after  == Get(ExposureIn(storage'), k)
    IN  /\ Has(ExposureIn(storage'), k)
        /\ after.box = (IF c THEN (IF before.box + 1 <= 5 THEN before.box + 1 ELSE 5)
                             ELSE 1)
        /\ after.timesSeen = before.timesSeen + 1
        /\ \A o \in Keys(SlotExposure) \ {k} :
              /\ Has(ExposureIn(storage'), o)
              /\ Get(ExposureIn(storage'), o) = Get(SlotExposure, o)
        /\ Keys(ExposureIn(storage')) = Keys(SlotExposure) \cup {k}

\* C1: after any sequence of trackExposure calls every exposure record has
\* box in 1..5; a call with wasCorrect = true sets box to min(previous box + 1,
\* 5), one with wasCorrect = false sets it to 1, and every call adds exactly 1
\* to that key's timesSeen and leaves the records of all other keys as they
\* were.
C1_TrackExposure ==
    [][ /\ \A k \in Keys(ExposureIn(storage')) :
              Get(ExposureIn(storage'), k).box \in 1..5
        /\ call'.op = "trackExposure" =>
              C1_Step(call'.args[1], call'.args[2]) ]_vars

\* C1's case: a correct call on a record already in box 5, with another key
\* tracked beside it.
C1_Witness ==
    /\ call.op = "trackExposure"
    /\ call.args[2]
    /\ correctRun[call.args[1]] >= 5
    /\ Get(SlotExposure, call.args[1]).box = 5
    /\ Cardinality(Keys(SlotExposure)) = 2

\* C2 as stated: trackExposure on a key with no record leaves box = 1 and
\* timesSeen = 1, whatever wasCorrect is; five correct calls in a row leave
\* box = 5, and a wrong call after them box = 1.
C2_Original ==
    [][ call'.op = "trackExposure" =>
          LET k     == call'.args[1]
              after == Get(ExposureIn(storage'), k)
          IN  /\ ~Has(SlotExposure, k) => after.box = 1 /\ after.timesSeen = 1
              /\ correctRun'[k] >= 5 => after.box = 5
              /\ ~call'.args[2] => after.box = 1 ]_vars

\* C2, amended: trackExposure on a key with no record leaves timesSeen = 1,
\* and box = 1 when wasCorrect is false, box = 2 when it is true; five correct
\* calls in a row leave box = 5, and a wrong call after them box = 1.
C2_FreshKey ==
    [][ call'.op = "trackExposure" =>
          LET k     == call'.args[1]
              after == Get(ExposureIn(storage'), k)
          IN  /\ ~Has(SlotExposure, k) =>
                    /\ after.timesSeen = 1
                    /\ after.box = (IF call'.args[2] THEN 2 ELSE 1)
              /\ correctRun'[k] >= 5 => after.box = 5
              /\ ~call'.args[2] => after.box = 1 ]_vars

\* C2's case: a key with no record tracked five times in a row, each time
\* correct.
C2_Witness ==
    /\ call.op = "trackExposure"
    /\ call.args[2]
    /\ correctRun[call.args[1]] = 5
    /\ Get(SlotExposure, call.args[1]).timesSeen = 5
    /\ ret.box = 5

\* The interval of a box in days, as the spec lists them.
C3_Days(box) ==
    CASE box = 1 -> 1 [] box = 2 -> 3 [] box = 3 -> 7 [] box = 4 -> 14
      [] box = 5 -> 30 [] OTHER -> 1

\* C3: at every clock value, getDueItems() with no limit holds an entry for a
\* tracked key exactly when now - lastSeen >= intervalDays(box) days, with 1, 3,
\* 7, 14 and 30 days for boxes 1 to 5.
C3_DueExactly ==
    call.op = "getDueItems" /\ call.args[1] = 0 =>
        \A k \in Keys(SlotExposure) :
            LET item == Get(SlotExposure, k)
            IN  (\E i \in 1..Len(ret) : ret[i].key = k)
                <=> (now - item.lastSeen >= C3_Days(item.box) * DayMs)

\* C3's case: a box-5 record read exactly 30 days after it was last seen, so
\* due, beside a record that trackExposure has just put into box 1, so not due.
C3_Witness ==
    /\ call.op = "getDueItems"
    /\ \E k \in Keys(SlotExposure) :
          /\ Get(SlotExposure, k).box = 5
          /\ now - Get(SlotExposure, k).lastSeen = 30 * DayMs
          /\ \E i \in 1..Len(ret) : ret[i].key = k
    /\ \E k \in Keys(SlotExposure) :
          /\ Get(SlotExposure, k).box = 1
          /\ Get(SlotExposure, k).lastSeen = now
          /\ \A i \in 1..Len(ret) : ret[i].key # k

\* The dosage record recordDosageQuiz starts from: the slot's, or a fresh one.
DosageBefore ==
    IF SlotHasDoc THEN SlotDoc.dosageStreak
    ELSE [current |-> 0, best |-> 0, recentScores |-> << >>]

\* C4: recordDosageQuiz(score, total) with percent = round(100 * score / total)
\* >= 90 adds exactly 1 to current and sets best to max(best, current); with
\* percent < 90 it sets current to 0 and leaves best; the attempt is appended
\* to recentScores, which never holds more than the 20 latest attempts.
C4_DosageStreak ==
    [][ call'.op = "recordDosageQuiz" =>
          LET score   == call'.args[1]
              total   == call'.args[2]
              before  == DosageBefore
              after   == Parse(storage').dosageStreak
              attempt == after.recentScores[Len(after.recentScores)]
          IN  \* round(100 * score / total) >= 90 iff 100 * score / total >= 89.5
              /\ total > 0 /\ 2 * 100 * score + total >= 2 * 90 * total =>
                    /\ after.current = before.current + 1
                    /\ after.best = (IF before.best >= after.current
                                     THEN before.best ELSE after.current)
              /\ total > 0 /\ 2 * 100 * score + total < 2 * 90 * total =>
                    /\ after.current = 0
                    /\ after.best = before.best
              /\ Len(after.recentScores) <= 20
              /\ attempt.ts = now /\ attempt.score = score /\ attempt.total = total
              /\ \/ /\ Len(before.recentScores) < 20
                    /\ after.recentScores = Append(before.recentScores, attempt)
                 \/ /\ Len(before.recentScores) = 20
                    /\ after.recentScores = Append(Tail(before.recentScores), attempt) ]_vars

\* C4's case: a pass recorded on a full recentScores, whose oldest attempt
\* goes, after a fail had set current back below best.
C4_Witness ==
    /\ call.op = "recordDosageQuiz"
    /\ call.args = <<9, 10>>
    /\ quizzes.all > 20
    /\ Len(SlotDoc.dosageStreak.recentScores) = 20
    /\ SlotDoc.dosageStreak.current < SlotDoc.dosageStreak.best
    /\ SlotDoc.dosageStreak.current > 0

\* The wrong-answer log of a slot text.
LedgerIn(text) == IF text.kind = "json" THEN Parse(text).wrongAnswerLog ELSE << >>

\* C8 as stated: retestWrongAnswer with an id that no record of the log has
\* returns null and leaves the slot as it was.
C8_Original ==
    [][ /\ call'.op = "retestWrongAnswer"
        /\ \A i \in 1..Len(SlotLedger) : SlotLedger[i].id # call'.args[1]
        => ret' = JNull /\ storage' = storage ]_vars

\* C8, amended: retestWrongAnswer with an id that no record of the log has
\* returns null and never changes or saves the document it loaded: a slot that
\* holds a document of the current version is left as it was, lastUpdated
\* included; a slot with no document gets the fresh document that every load
\* of such a slot creates, and a document of another version is saved with the
\* current version and a new lastUpdated, all its other fields as they were.
C8_UnknownId ==
    [][ /\ call'.op = "retestWrongAnswer"
        /\ \A i \in 1..Len(SlotLedger) : SlotLedger[i].id # call'.args[1]
        => /\ ret' = JNull
           /\ storage.kind = "json" /\ storage.val._version = 1
                 => storage' = storage
           /\ storage.kind = "json" /\ storage.val._version # 1
                 => /\ storage'.kind = "json"
                    /\ DOMAIN storage'.val = DOMAIN storage.val
                    /\ \A f \in DOMAIN storage.val :
                          storage'.val[f] = (CASE f = "_version" -> 1
                                               [] f = "_lastUpdated" -> now
                                               [] OTHER -> storage.val[f])
           /\ storage.kind # "json"
                 => /\ storage'.kind = "json"
                    /\ storage'.val._version = 1
                    /\ storage'.val._created = now
                    /\ storage'.val._lastUpdated = now
                    /\ storage'.val.wrongAnswerLog = << >>
                    /\ storage'.val.exposure = << >>
                    /\ storage'.val.performance = << >>
                    /\ storage'.val.sessions = << >>
                    /\ storage'.val.dosageStreak.current = 0 ]_vars

\* C8's case: an unknown id retested on a log that holds a record, later than
\* the document was last saved.
C8_Witness ==
    /\ call.op = "retestWrongAnswer"
    /\ call.args[1] = UnknownId
    /\ ret = JNull
    /\ Len(SlotLedger) > 0
    /\ SlotDoc._lastUpdated < now

\* C9: a record that addWrongAnswer creates at time t has srBox = 1, srNextDue
\* = t + 1 day and no retest history; while it has not been retested,
\* getWrongAnswersDue() holds it when called at t + 1 day or later, and not
\* when called before.
C9_NewRecordDue ==
    /\ call.op = "addWrongAnswer" =>
          /\ ret.srBox = 1
          /\ ret.srNextDue = now + (24 * 60 * 60 * 1000) \div 43200000
          /\ ret.ts = now
          /\ ret.retestHistory = << >>
          /\ Len(SlotLedger) > 0 /\ SlotLedger[Len(SlotLedger)] = ret
    /\ call.op = "getWrongAnswersDue" =>
          \A i \in 1..Len(SlotLedger) :
              SlotLedger[i].retestHistory = << >> =>
                  ((\E j \in 1..Len(ret) : ret[j] = SlotLedger[i])
                   <=> now >= SlotLedger[i].ts + (24 * 60 * 60 * 1000) \div 43200000)

\* C9's case: the due list read a day after one record was added and half a
\* day after another, neither retested: it holds the first and not the second.
C9_Witness ==
    /\ call.op = "getWrongAnswersDue"
    /\ Len(SlotLedger) = 2
    /\ SlotLedger[1].retestHistory = << >> /\ SlotLedger[2].retestHistory = << >>
    /\ SlotLedger[1].ts = now - DayMs
    /\ SlotLedger[2].ts = now - 1
    /\ ret = <<SlotLedger[1]>>

\* C10: retestWrongAnswer on a record of the log at time t appends exactly one
\* {timestamp, wasCorrect} entry to its retest history, sets srBox to
\* min(srBox + 1, 5) if wasCorrect and else to 1, sets srNextDue to t +
\* intervalDays(new srBox) days, and leaves the record's other fields and
\* every other record of the log; after any sequence of add and retest calls
\* every srBox is in 1..5 and the log has not shrunk.
C10_Retest ==
    [][ /\ Len(LedgerIn(storage')) >= Len(SlotLedger)
        /\ \A i \in 1..Len(LedgerIn(storage')) : LedgerIn(storage')[i].srBox \in 1..5
        /\ (/\ call'.op = "retestWrongAnswer"
            /\ \E i \in 1..Len(SlotLedger) : SlotLedger[i].id = call'.args[1])
           => LET id     == call'.args[1]
                  i      == CHOOSE x \in 1..Len(SlotLedger) :
                               /\ SlotLedger[x].id = id
                               /\ \A y \in 1..(x - 1) : SlotLedger[y].id # id
                  before == SlotLedger[i]
                  after  == LedgerIn(storage')[i]
                  box    == IF call'.args[2]
                            THEN (IF before.srBox < 5 THEN before.srBox + 1 ELSE 5)
                            ELSE 1
              IN  /\ Len(LedgerIn(storage')) = Len(SlotLedger)
                  /\ after.retestHistory =
                        before.retestHistory \o <<[ts |-> now, correct |-> call'.args[2]]>>
                  /\ after.srBox = box
                  /\ after.srNextDue = now + C3_Days(box) * DayMs
                  /\ \A f \in DOMAIN before \ {"retestHistory", "srBox", "srNextDue"} :
                        after[f] = before[f]
                  /\ DOMAIN after = DOMAIN before
                  /\ \A j \in 1..Len(SlotLedger) :
                        j # i => LedgerIn(storage')[j] = SlotLedger[j]
                  /\ ret' = after ]_vars

\* C10's case: a fifth correct retest in a row of one record, which stays in
\* box 5, in a log of two records.
C10_Witness ==
    /\ call.op = "retestWrongAnswer"
    /\ call.args[2]
    /\ call.args[1] # UnknownId
    /\ Len(SlotLedger) = 2
    /\ ret.srBox = 5
    /\ Len(ret.retestHistory) = 5
    /\ \A i \in 1..5 : ret.retestHistory[i].correct
    /\ ret.srNextDue = now + 30 * DayMs

\* The weakness map of the slot's document.
SlotWeakness == IF SlotHasDoc THEN SlotDoc.weakness ELSE << >>

\* The three sources of the daily 10, each in its order: the wrong answers due
\* now, the items getDueItems lists, the areas getWeaknesses lists.
C5_DueWrong == SelectSeq(SlotLedger, LAMBDA wa : wa.srNextDue <= now)

C5_DueItems == DueItemsOf(SlotDoc, now, 0)

C5_Weak == WeaknessesOf(SlotDoc)

\* Those sources as the items the daily 10 makes of them, one after the other.
C5_Pool ==
    LET wrong == SubSeq(C5_DueWrong, 1, IF Len(C5_DueWrong) < 2 THEN Len(C5_DueWrong) ELSE 2)
    IN  [i \in 1..Len(wrong) |->
            [type |-> "wrong-answer-retest", data |-> wrong[i],
             project |-> "wrong-answer-log"]]
        \o (CHOOSE items \in {[i \in 1..Len(due) |->
                                  [type |-> "spaced-rep", data |-> due[i],
                                   project |-> IF due[i].key[1] = "" THEN "unknown"
                                               ELSE due[i].key[1]]] :
                              due \in {C5_DueItems}} : TRUE)
        \o (CHOOSE areas \in {[i \in 1..Len(weak) |->
                                  [type |-> "weakness-practice",
                                   conceptArea |-> weak[i].conceptArea,
                                   display |-> weak[i].display, score |-> weak[i].score,
                                   suggestedProjects |-> weak[i].flaggedByKeys]] :
                              weak \in {C5_Weak}} : TRUE)

\* C5: generateDaily10 returns at most 10 items in strict priority order: at
\* most 2 due wrong-answer retests, then the due spaced-repetition items in
\* getDueItems order, then one weakness-practice entry per weak area in
\* getWeaknesses order, cut at 10; it returns fewer than 10 only when the three
\* sources are exhausted.  With 2 due wrong answers, 15 due items and 3 weak
\* areas it returns 2 retests, then 8 spaced-repetition items, and no
\* weakness-practice entry.
C5_Daily10 ==
    call.op = "generateDaily10" =>
        /\ Len(ret) <= 10
        /\ \A pool \in {C5_Pool} :
               /\ Len(ret) = (IF Len(pool) < 10 THEN Len(pool) ELSE 10)
               /\ \A i \in 1..Len(ret) : ret[i] = pool[i]
        /\ Len(C5_DueWrong) = 2 /\ Len(C5_DueItems) = 15 /\ Len(C5_Weak) = 3 =>
              /\ Len(ret) = 10
              /\ \A i \in 1..2 : ret[i].type = "wrong-answer-retest"
              /\ \A i \in 3..10 : ret[i].type = "spaced-rep"

\* C5's case: the daily 10 asked for with 2 wrong answers due, 15 items due
\* and 3 weak areas.
C5_Witness ==
    /\ call.op = "generateDaily10"
    /\ Len(C5_DueWrong) = 2
    /\ Len(C5_DueItems) = 15
    /\ Len(C5_Weak) = 3
    /\ Len(ret) = 10

\* C6: exportData() followed by resetAll() followed by importData(exported)
\* returns true and leaves the persisted document equal to the document
\* resetAll discarded, in all its fields, so that getOverallStats() at the same
\* clock value gives what it gave of that document.
C6_RoundTrip ==
    phase = "restored" =>
        /\ call.op = "importData" => ret = TRUE
        /\ storage.kind = "json" /\ discarded.kind = "json"
        /\ Parse(storage) = Parse(discarded)
        /\ GetOverallStatsOp(storage, now).ret = GetOverallStatsOp(discarded, now).ret
        /\ call.op = "getOverallStats" => ret = GetOverallStatsOp(discarded, now).ret

\* C6's case: the snapshot asked for after the round trip of a document with
\* items, results and wrong answers in it, which came back as another text.
C6_Witness ==
    /\ phase = "restored"
    /\ call.op = "getOverallStats"
    /\ ret.exposureCount > 0
    /\ ret.totalAttempts > 0
    /\ ret.wrongAnswers.total > 0
    /\ storage # discarded

\* C7: importData(payload) returns true and puts the payload in the slot as
\* it is only when the payload parses and has a version field; for a payload
\* that does not parse or has no version field it returns false, and whenever
\* it returns false the slot is left as it was.  (The code takes a payload
\* exactly when its version is truthy.)
C7_Import ==
    [][call'.op = "importData" =>
         LET text      == call'.args[1]
             versioned == text.kind = "json" /\ "_version" \in DOMAIN Parse(text)
         IN  /\ ret' \in BOOLEAN
             /\ ret' = TRUE => versioned /\ storage' = text
             /\ ~versioned => ret' = FALSE
             /\ ret' = FALSE => storage' = storage
             /\ ret' = TRUE <=> versioned /\ Parse(text)._version # 0]_vars

\* C7's case: a payload without a version field refused while the slot holds
\* a document with items in it.
C7_Witness ==
    /\ call.op = "importData"
    /\ call.args[1] = VersionlessText
    /\ ret = FALSE
    /\ SlotHasDoc
    /\ Len(SlotExposure) > 0

\* The performance map of the slot's document.
SlotPerformance == IF SlotHasDoc THEN SlotDoc.performance ELSE << >>

\* Every performance record has correct <= total.
C11_CorrectWithinTotal ==
    \A a \in 1..Len(SlotPerformance) :
        \A p \in 1..Len(SlotPerformance[a].val) :
            SlotPerformance[a].val[p].val.correct <= SlotPerformance[a].val[p].val.total

\* C11 as stated: after any sequence of recordResult calls every performance
\* record has correct <= total.
C11_Original == C11_CorrectWithinTotal

\* C11, amended: after any sequence of recordResult calls each of which had
\* correct <= total, every performance record has correct <= total.
C11_Consistent ==
    (\A i \in 1..Len(recorded) : recorded[i].correct <= recorded[i].total)
        => C11_CorrectWithinTotal

\* C11's case: three calls with correct <= total, two of them on one record,
\* whose counts have been added up.
C11_Witness ==
    /\ call.op = "recordResult"
    /\ Len(recorded) = 3
    /\ \A i \in 1..3 : recorded[i].correct <= recorded[i].total
    /\ \E a \in 1..Len(SlotPerformance) :
          \E p \in 1..Len(SlotPerformance[a].val) :
              /\ Len(SlotPerformance[a].val[p].val.history) = 2
              /\ SlotPerformance[a].val[p].val.correct = 5
              /\ SlotPerformance[a].val[p].val.total = 8

RECURSIVE CallsOf(_, _, _)
\* The results recorded for an area and tool, oldest first, as history
\* entries.
CallsOf(calls, conceptArea, projectKey) ==
    IF calls = << >> THEN << >>
    ELSE (IF Head(calls).conceptArea = conceptArea /\ Head(calls).project = projectKey
          THEN <<[ts |-> Head(calls).ts, correct |-> Head(calls).correct,
                  total |-> Head(calls).total]>>
          ELSE << >>)
         \o CallsOf(Tail(calls), conceptArea, projectKey)

RECURSIVE SumOf(_, _)
SumOf(entries, f) ==
    IF entries = << >> THEN 0 ELSE Head(entries)[f] + SumOf(Tail(entries), f)

\* C12: every performance record's history has at most 50 entries and is the
\* last min(n, 50) of the n results recorded for its area and tool, in the
\* order recorded, while its correct and total are the sums over all n; and
\* every area and tool with a result has a record.
C12_History ==
    /\ \A a \in 1..Len(SlotPerformance) :
          \A p \in 1..Len(SlotPerformance[a].val) :
              \E all \in {CallsOf(recorded, SlotPerformance[a].key,
                                  SlotPerformance[a].val[p].key)} :
                \E rec \in {SlotPerformance[a].val[p].val} :
                  /\ Len(rec.history) <= 50
                  /\ Len(rec.history) = Min(Len(all), 50)
                  /\ rec.history = SubSeq(all, Len(all) - Len(rec.history) + 1, Len(all))
                  /\ rec.correct = SumOf(all, "correct")
                  /\ rec.total = SumOf(all, "total")
    /\ \A i \in 1..Len(recorded) :
          /\ Has(SlotPerformance, recorded[i].conceptArea)
          /\ Has(Get(SlotPerformance, recorded[i].conceptArea), recorded[i].project)

\* C12's case: a record that has had more than 50 results, recorded at two
\* instants, beside one that has had fewer.
C12_Witness ==
    /\ call.op = "recordResult"
    /\ Len(CallsOf(recorded, "cardiac", "quiz-prep")) > 50
    /\ Len(Get(Get(SlotPerformance, "cardiac"), "quiz-prep").history) = 50
    /\ Get(Get(SlotPerformance, "cardiac"), "quiz-prep").history[1].ts = 0
    /\ Get(Get(SlotPerformance, "cardiac"), "quiz-prep").history[50].ts = 2
    /\ Len(Get(Get(SlotPerformance, "cardiac"), "cardiac-pharm").history) \in 1..49

\* round(100 a / b) of the integers, a half going up.
RoundHundredfold(a, b) == (200 * a + b) \div (2 * b)

\* The tools of an area's records with total >= 3 and correct / total < 0.75.
FlaggedTools(areaPerf) ==
    {areaPerf[p].key : p \in {q \in 1..Len(areaPerf) :
        /\ areaPerf[q].val.total >= 3
        /\ 4 * areaPerf[q].val.correct < 3 * areaPerf[q].val.total}}

\* The weakness record w of an area agrees with the area's performance
\* records but for the score.
C13_CountsAndFlags(w, areaPerf) ==
    /\ w.totalAttempts = SumField(areaPerf, "total")
    /\ {w.flaggedBy[f] : f \in 1..Len(w.flaggedBy)} = FlaggedTools(areaPerf)
    /\ Len(w.flaggedBy) = Cardinality(FlaggedTools(areaPerf))

\* C13: after any sequence of recordResult calls every weakness record agrees
\* with the performance records of its area: totalAttempts is the sum of
\* their totals, score is round(100 * sum of correct / sum of total), or 100
\* when the sum of total is 0, and flaggedBy holds exactly the tools with
\* total >= 3 and correct / total < 0.75; and every area with a result has a
\* weakness record.
C13_Weakness ==
    /\ \A a \in 1..Len(SlotWeakness) :
          \E areaPerf \in {Get(SlotPerformance, SlotWeakness[a].key)} :
              /\ C13_CountsAndFlags(SlotWeakness[a].val, areaPerf)
              /\ SlotWeakness[a].val.score =
                    IF SumField(areaPerf, "total") = 0 THEN 100
                    ELSE RoundHundredfold(SumField(areaPerf, "correct"),
                                          SumField(areaPerf, "total"))
    /\ \A i \in 1..Len(recorded) : Has(SlotWeakness, recorded[i].conceptArea)

\* What does hold of the weakness records: the counts and the flags, and a
\* score that is off by at most 1 from the rounded percentage.
C13_WeaknessButScore ==
    /\ \A a \in 1..Len(SlotWeakness) :
          \E areaPerf \in {Get(SlotPerformance, SlotWeakness[a].key)} :
              /\ C13_CountsAndFlags(SlotWeakness[a].val, areaPerf)
              /\ SlotWeakness[a].val.score \in
                    IF SumField(areaPerf, "total") = 0 THEN {100}
                    ELSE {RoundHundredfold(SumField(areaPerf, "correct"),
                                           SumField(areaPerf, "total")) - 1,
                          RoundHundredfold(SumField(areaPerf, "correct"),
                                           SumField(areaPerf, "total"))}
    /\ \A i \in 1..Len(recorded) : Has(SlotWeakness, recorded[i].conceptArea)

\* C13's case: an area with results of two tools, one of them flagged.
C13_Witness ==
    /\ call.op = "recordResult"
    /\ Has(SlotWeakness, "cardiac")
    /\ Get(SlotWeakness, "cardiac").flaggedBy = <<"cardiac-pharm">>
    /\ Len(Get(SlotPerformance, "cardiac")) = 2
    /\ Get(SlotWeakness, "cardiac").totalAttempts = 11

\* The daily log of the slot's document.
SlotDailyLog == IF SlotHasDoc THEN SlotDoc.dailyLog ELSE << >>

\* Day d has a log entry with items > 0.
Studied(d) == Has(SlotDailyLog, d) /\ Get(SlotDailyLog, d).items > 0

RECURSIVE StudiedRun(_)
\* The number of days in a row with items > 0, from day d backward.
StudiedRun(d) == IF d >= 0 /\ Studied(d) THEN 1 + StudiedRun(d - 1) ELSE 0

\* The streak as the days of the log give it: the run that ends today, or
\* the one that ends yesterday when today has no items.
C14_Expected ==
    IF Studied(DayKey(now)) THEN StudiedRun(DayKey(now)) ELSE StudiedRun(DayKey(now) - 1)

\* C14: getStreak() returns the number of days in a row with items > 0,
\* counted backward from today, stopping at the first day without unless
\* that day is today; with no items today, items yesterday and the day
\* before, and none the day before that, it returns 2.
C14_Streak ==
    call.op = "getStreak" =>
        /\ ret = C14_Expected
        /\ (/\ ~Studied(DayKey(now))
            /\ Studied(DayKey(now) - 1)
            /\ Studied(DayKey(now) - 2)
            /\ ~Studied(DayKey(now) - 3)) => ret = 2

\* What does hold: the same in a zone that never sets its clocks back.
C14_StreakOneOffset ==
    (call.op = "getStreak" /\ setBackDay = NoSetBack) => ret = C14_Expected

\* C14's case: the streak asked for with no items today, items on the two
\* days before and none on the day before those.
C14_Witness ==
    /\ call.op = "getStreak"
    /\ setBackDay = NoSetBack
    /\ ~Studied(DayKey(now))
    /\ Studied(DayKey(now) - 1)
    /\ Studied(DayKey(now) - 2)
    /\ ~Studied(DayKey(now) - 3)
    /\ DayKey(now) >= 3
    /\ ret = 2

\* The operations of the public interface.
PublicOps ==
    {"recordResult", "getWeaknesses", "getConceptScore", "trackExposure", "getDueItems",
     "recordDosageQuiz", "getDosageStats", "addWrongAnswer", "getWrongAnswersDue",
     "retestWrongAnswer", "getWrongAnswerStats", "getSessionHistory", "getDailyLog",
     "getStreak", "generateDaily10", "getProjectStatus", "getOverallStats", "exportData",
     "importData", "resetAll"}

\* Those that do not write but by their load.
ReadOps ==
    {"getWeaknesses", "getConceptScore", "getDueItems", "getDosageStats",
     "getWrongAnswersDue", "getWrongAnswerStats", "getSessionHistory", "getDailyLog",
     "getStreak", "generateDaily10", "getProjectStatus", "getOverallStats", "exportData"}

\* What the call c leaves and returns when the slot holds slot at t.
Outcome(c, slot, t) ==
    CASE c.op = "recordResult" ->
             RecordResultOp(slot, t, c.args[1], c.args[2], c.args[3], c.args[4], JNull)
      [] c.op = "getWeaknesses" -> GetWeaknessesOp(slot, t)
      [] c.op = "getConceptScore" -> GetConceptScoreOp(slot, t, c.args[1])
      [] c.op = "trackExposure" -> TrackExposureOp(slot, t, c.args[1], c.args[2])
      [] c.op = "getDueItems" -> GetDueItemsOp(slot, t, c.args[1])
      [] c.op = "recordDosageQuiz" -> RecordDosageQuizOp(slot, t, c.args[1], c.args[2])
      [] c.op = "getDosageStats" -> GetDosageStatsOp(slot, t)
      [] c.op = "addWrongAnswer" -> AddWrongAnswerOp(slot, t, c.args[1], c.args[2])
      [] c.op = "getWrongAnswersDue" -> GetWrongAnswersDueOp(slot, t)
      [] c.op = "retestWrongAnswer" -> RetestWrongAnswerOp(slot, t, c.args[1], c.args[2])
      [] c.op = "getWrongAnswerStats" -> GetWrongAnswerStatsOp(slot, t)
      [] c.op = "getSessionHistory" -> GetSessionHistoryOp(slot, t, c.args[1])
      [] c.op = "getDailyLog" -> GetDailyLogOp(slot, t, c.args[1])
      [] c.op = "getStreak" -> GetStreakOp(slot, t)
      [] c.op = "generateDaily10" -> GenerateDaily10Op(slot, t)
      [] c.op = "getProjectStatus" -> GetProjectStatusOp(slot, t, c.args[1])
      [] c.op = "getOverallStats" -> GetOverallStatsOp(slot, t)
      [] c.op = "exportData" -> ExportDataOp(slot, t)
      [] c.op = "importData" -> ImportDataOp(slot, c.args[1])
      [] c.op = "resetAll" -> ResetAllOp(slot, t)

\* A fresh document of t, as the slot holds it: the current version, empty
\* collections, zero streaks.
FreshText(t) ==
    [kind |-> "json", indent |-> 0,
     val  |-> [_version |-> VERSION, _created |-> t, _lastUpdated |-> t,
               performance |-> << >>, weakness |-> << >>, exposure |-> << >>,
               sessions |-> << >>,
               dosageStreak |-> [current |-> 0, best |-> 0, recentScores |-> << >>],
               wrongAnswerLog |-> << >>, dailyLog |-> << >>]]

\* The slot holds a document that was created fresh at t.
CreatedAt(slot, t) ==
    /\ slot.kind = "json"
    /\ ~Lacks(slot.val, Collections \cup {"_version", "_created"})
    /\ slot.val._version = VERSION
    /\ slot.val._created = t

\* A call of one of ops that finds a text that does not parse returns without
\* an error and leaves and returns what it does on a fresh document, which
\* is in the slot in place of the text; and a read that finds the slot empty
\* leaves a fresh document there.
C15_Recovers(ops) ==
    /\ (storage.kind = "garbage" /\ call'.op \in ops) =>
          /\ ~Threw(Outcome(call', storage, now))
          /\ CreatedAt(storage', now)
          /\ storage' = Outcome(call', FreshText(now), now).slot
          /\ ret' = Outcome(call', FreshText(now), now).ret
          /\ call'.op \in ReadOps => storage' = FreshText(now)
    /\ (storage.kind = "absent" /\ call'.op \in ReadOps) =>
          /\ ~Threw(Outcome(call', storage, now))
          /\ storage' = FreshText(now)

\* C15 as stated: on a slot whose content cannot be parsed every public
\* operation completes without an error and works on a fresh document that
\* replaces the content; on an empty slot load creates and persists a fresh
\* document.
C15_Original == [][C15_Recovers(PublicOps)]_vars

\* C15, amended: the same of every public operation but importData, which
\* does not load.
C15_Corrupt == [][C15_Recovers(PublicOps \ {"importData"})]_vars

\* C15's case: a write and a read that found a text that does not parse, and
\* a read that found the slot empty.
C15_Witness ==
    \/ /\ found = "garbage"
       /\ call.op = "recordResult"
       /\ CreatedAt(storage, now)
       /\ Len(SlotDoc.sessions) = 1
    \/ /\ found = "garbage"
       /\ call.op = "getStreak"
       /\ storage = FreshText(now)
       /\ now = 2

\* The read that found the slot empty.
C15_WitnessEmpty ==
    /\ found = "absent"
    /\ call.op = "getOverallStats"
    /\ storage = FreshText(now)

\* C16: no operation of the public interface throws to its caller, whatever
\* load or an accepted importData has left in the slot.
C16_NoException ==
    [][call'.op \in PublicOps => ~Threw(Outcome(call', storage, now))]_vars

\* What does hold: no operation throws unless the slot holds a document
\* without one of the collections.
C16_NoExceptionOnWhole ==
    [][(call'.op \in PublicOps /\ (SlotHasDoc => ~Lacks(SlotDoc, Collections)))
          => ~Threw(Outcome(call', storage, now))]_vars

\* C16's case: an operation called on a document that importData accepted
\* and that is whole.
C16_Witness ==
    /\ call.op = "retestWrongAnswer"
    /\ found = "json"
    /\ Len(SlotLedger) = 1
    /\ SlotLedger[1].id = WaId(0, "k3j2h")
    /\ Len(SlotLedger[1].retestHistory) = 1

\* A document but for its last-updated timestamp.
Undated(doc) == [f \in DOMAIN doc \ {"_lastUpdated"} |-> doc[f]]

\* Migrating doc at t gives doc with the current version and t as its
\* last-updated timestamp, every other field as it was, and saves that.
C17_MigratesOnly(doc, t) ==
    /\ DOMAIN Migrate(doc, t).store = DOMAIN doc \cup {"_version", "_lastUpdated"}
    /\ Migrate(doc, t).store._version = VERSION
    /\ Migrate(doc, t).store._lastUpdated = t
    /\ \A f \in DOMAIN doc \ {"_version", "_lastUpdated"} :
          Migrate(doc, t).store[f] = doc[f]
    /\ Migrate(doc, t).slot = Stringify(Migrate(doc, t).store, 0)

\* Migrating twice gives what migrating once gives, timestamps aside.
C17_Idempotent(doc, t) ==
    Undated(Migrate(Migrate(doc, t).store, t + DayMs).store) = Undated(Migrate(doc, t).store)

\* C17: a read that finds a document of another version leaves in the slot
\* the document with the current version and the instant as its last-updated
\* timestamp and every other field as it was; migrating is idempotent; and a
\* load of what the read left migrates nothing and saves nothing.
C17_Migrate ==
    [][(SlotHasDoc /\ VersionDiffers(SlotDoc) /\ call'.op \in ReadOps) =>
          /\ C17_MigratesOnly(SlotDoc, now)
          /\ C17_Idempotent(SlotDoc, now)
          /\ storage' = Migrate(SlotDoc, now).slot
          /\ ~VersionDiffers(Parse(storage'))
          /\ GetStore(storage', now + DayMs) = [store |-> Parse(storage'), slot |-> storage']
      ]_vars

\* C17's case: a read has found the imported document of version 2 with its
\* wrong answer and migrated it at 2.
C17_Witness ==
    /\ call.op = "getWrongAnswersDue"
    /\ found = "json"
    /\ SlotHasDoc
    /\ storage.indent = 0
    /\ Len(SlotLedger) = 1
    /\ SlotLedger[1].id = WaId(0, "k3j2h")
    /\ SlotLedger[1].retestHistory = << >>
    /\ SlotDoc._version = VERSION
    /\ SlotDoc._lastUpdated = 2
    /\ ret = SlotLedger

\* The keys of the exposure records that are due now.
DueKeys ==
    {SlotExposure[i].key : i \in {j \in 1..Len(SlotExposure) :
        now >= SlotExposure[j].val.lastSeen
                 + SR_INTERVALS[SlotExposure[j].val.box] * DayMs}}

\* The whole days the record of key k is overdue.
OverdueDays(k) ==
    Floor(now - (Get(SlotExposure, k).lastSeen
                   + SR_INTERVALS[Get(SlotExposure, k).box] * DayMs), DayMs)

\* Key j may not stand before key k: its box is higher, or the same with
\* fewer days overdue.
MustFollow(j, k) ==
    \/ Get(SlotExposure, j).box > Get(SlotExposure, k).box
    \/ /\ Get(SlotExposure, j).box = Get(SlotExposure, k).box
       /\ OverdueDays(j) < OverdueDays(k)

C18_WitnessAll ==
    /\ call.op = "getDueItems"
    /\ call.args = <<0>>
    /\ Len(ret) = 3
    /\ ret[3].box > ret[2].box
    /\ ret[3].overdue > ret[1].overdue

\* The areas with at least 3 attempts and a score under 80.
WeakAreas ==
    {SlotWeakness[a].key : a \in {b \in 1..Len(SlotWeakness) :
        SlotWeakness[b].val.totalAttempts >= 3 /\ SlotWeakness[b].val.score < 80}}

\* C19: getWeaknesses() returns one entry for each area with at least 3
\* attempts and a score under 80 and for no other, whatever tools have
\* flagged it, with the area's score, by ascending score.
C19_Weaknesses ==
    call.op = "getWeaknesses" =>
        /\ {ret[i].conceptArea : i \in 1..Len(ret)} = WeakAreas
        /\ Len(ret) = Cardinality(WeakAreas)
        /\ \A i \in 1..Len(ret) :
              ret[i].score = Get(SlotWeakness, ret[i].conceptArea).score
        /\ \A i, j \in 1..Len(ret) : i < j => ret[i].score <= ret[j].score

\* C19's case: two weak areas returned in the order of their scores, which
\* is not the order they were recorded in, and an area with 2 attempts left
\* out.
C19_Witness ==
    /\ call.op = "getWeaknesses"
    /\ Len(ret) = 2
    /\ ret[1].conceptArea = "cardiac"
    /\ ret[1].score < ret[2].score
    /\ Len(SlotWeakness) = 3
    /\ SlotWeakness[1].key = ret[2].conceptArea
    /\ Has(SlotWeakness, "oxygenation")
    /\ Get(SlotWeakness, "oxygenation").score < 80

\* An area a tool has flagged, with a score of 80 or more, left out.
C19_WitnessFlagged ==
    /\ call.op = "getWeaknesses"
    /\ ret = << >>
    /\ Has(SlotWeakness, "cardiac")
    /\ Get(SlotWeakness, "cardiac").flaggedBy # << >>
    /\ Get(SlotWeakness, "cardiac").score >= 80

\* The dosage streak of the document the step leaves.
DosageAfter ==
    IF storage'.kind = "json" THEN Parse(storage').dosageStreak
    ELSE [current |-> 0, best |-> 0, recentScores |-> << >>]

\* C20: from a fresh document on, whatever quizzes are recorded,
\* 0 <= current <= best after every step, and best is never lower after a
\* step than before it.
C20_BestBounds ==
    [][/\ 0 <= DosageAfter.current
       /\ DosageAfter.current <= DosageAfter.best
       /\ DosageAfter.best >= DosageBefore.best]_vars

\* C20's case: a pass recorded after a fail, with the streak under way again
\* and still below the best one.
C20_Witness ==
    /\ call.op = "recordDosageQuiz"
    /\ ret.passed
    /\ SlotDoc.dosageStreak.current = 2
    /\ SlotDoc.dosageStreak.best = 3
    /\ Len(SlotDoc.dosageStreak.recentScores) = 6

====
